---- MODULE Spec2Model ----
(***************************************************************************)
(* TimelineProfiler: the CPU recorder (Profiler), the GPU recorder         *)
(* (GPUProfiler) with its query heaps, and the present-pacing tracker      *)
(* (Profiler::Present), as state machines over the objects' fields.        *)
(*                                                                         *)
(* Every handler is a function from the whole program state (a "world"     *)
(* record holding the two singletons, the thread-local data, the clock and *)
(* the hardware) to the state it leaves, so that a handler which calls     *)
(* another (Tick calls EndEvent and BeginEvent, GPUProfiler::Tick calls    *)
(* Profiler::AddEvent) is the composition of the two.  A failed gAssert    *)
(* (HandleAssertMessage + __debugbreak) halts the program: it is recorded  *)
(* in `fault` and nothing runs afterwards.                                 *)
(***************************************************************************)
EXTENDS Integers, Sequences, FiniteSets, TLC

VARIABLES
    gProfiler,      \* the CPU recorder singleton (Profiler.h:556-680)
    gGPUProfiler,   \* the GPU recorder singleton (Profiler.h:348-505), with the fences and
                    \* resolve queues of its query heaps
    tls,            \* per thread: the thread_local track index (Profiler.h:639)
    qpc,            \* per thread: the value QueryPerformanceCounter returned to it last
    swapChain,      \* the swap chain and the display: presents made, refreshes, frame statistics
    conv,           \* a GPU event under conversion: calibration, GPU timestamps, CPU ticks
    marker,         \* one command-list marker of a frame at the widths of the source: the
                    \* capacities of the heaps, m_EventIndex, the Query and how it was read
    shutdown,       \* Profiler::Shutdown has returned: the recorder is not called any more
    sampleHistory,  \* the SampleHistory of the frame the timestamp-sorting GPU recorder
                    \* resolves (FooProfiler.h:515-525)
    fault           \* "none", or the assertion / undefined behaviour that stopped the program

vars == <<gProfiler, gGPUProfiler, tls, qpc, swapChain, conv, marker, shutdown, sampleHistory, fault>>

(***************************************************************************)
(* Bounds of the model                                                     *)
(***************************************************************************)
\* history size passed to Profiler::Initialize
HistorySize == 2
\* frames the model runs (Tick is not taken beyond it)
MaxFrames == 3
\* events a worker thread begins in one frame
MaxThreadEvents == 2
\* events the frame-owning thread begins in one frame, besides the "CPU Frame" event
MaxFrameThreadEvents == 1
\* clock ticks that pass per frame
TicksPerFrame == 10
\* capacity N of FixedArray<uint32, MAX_STACK_DEPTH> (32 in the source, scaled)
MAX_STACK_DEPTH == 3
\* capacity N of FixedArray<Query, MAX_EVENT_DEPTH> (32 in the source, scaled)
MAX_EVENT_DEPTH == 3
\* frame latency passed to GPUProfiler::Initialize
FrameLatency == 2
\* QueryData::cMaxNumQueries, the capacity of one query heap (65535 in the source, scaled)
MaxNumQueries == 2
\* markers (Begin or End) recorded and not yet submitted, over all command lists
MaxMarkers == 2
\* width of a tick counter in bits (64 in the source, scaled)
TickBits == 8
\* the GPU clock when GetClockCalibration is called
GpuClockAtCalibration == 20
\* QueryPerformanceFrequency and GetTimestampFrequency
CpuTickFrequency == 1
GpuTickFrequency == 1

\* presents the application makes, and refreshes of the display
MaxPresents == 4
MaxRefreshes == 3
\* the QPC time of the first refresh, and the ticks between two refreshes
FirstVSyncTime == 100
RefreshInterval == 30
\* Profiler::m_MsToTicks, the ticks of one millisecond
MsToTicks == 2
\* size of m_PresentQueue (32 in the source, scaled)
PresentQueueSize == 4
\* regions recorded in one frame of the timestamp-sorting GPU recorder
MaxRegions == 3
\* largest GPU timestamp of such a region
MaxRegionTicks == 3
\* largest m_EventIndex a marker is recorded at (all values of the 16-bit field)
MaxEventIndex == 65535
\* largest GPU timestamp of an event under conversion
MaxGpuTicks == 90

TickModulus == 2 ^ TickBits
\* the command lists of the application and their types
CmdLists == {"cmd1", "cmd2"}
CmdListType(cmd) == IF cmd = "cmd2" THEN "COPY" ELSE "DIRECT"
\* two command lists of type DIRECT that two threads record at the same time
DirectLists == {"cmd1", "cmd3"}
\* the queues passed to GPUProfiler::Initialize, by type
Queues == <<"DIRECT", "COPY">>

\* the application threads; "main" is the frame-owning thread, which calls Tick
Threads == {"main", "worker"}
FrameThread == "main"
NoFault == "none"
NoTrack == -1

(***************************************************************************)
(* Small helpers                                                           *)
(***************************************************************************)
Min(a, b) == IF a < b THEN a ELSE b
Max(a, b) == IF a > b THEN a ELSE b

\* gAssert(cond): the program stops at the first assertion that fails
Fail(w, what) == IF w.fault = NoFault THEN [w EXCEPT !.fault = what] ELSE w

\* GetFrameColor(frameIndex): the hue is frameIndex % 10 / 10
GetFrameColor(frameIndex) == frameIndex % 10
\* ColorFromString(name): a colour that depends on the name only
ColorFromString == 10

\* a value-initialised ProfilerEvent
\* nullptr as a page
NoPage == 0
\* a value-initialised ProfilerEvent; pName is the text of the name and pNamePage the
\* scratch page the pointer pName points into (NoPage: no scratch page)
NewEvent == [pName |-> "", pNamePage |-> NoPage, Color |-> 0, Depth |-> 0, ThreadIndex |-> 0,
             QueueIndex |-> 0, TicksBegin |-> 0, TicksEnd |-> 0]

\* ProfilerEvent::IsValid
IsValid(e) == e.TicksBegin # 0 /\ e.TicksEnd # 0

\* QueryPerformanceCounter read by thread t: strictly increasing for the thread, and
\* every read made in frame F lies in F * TicksPerFrame + 1 .. (F + 1) * TicksPerFrame,
\* so that reads of different frames are ordered across threads as well
QueryPerformanceCounter(w, t) ==
    [w EXCEPT !.qpc[t] = Max(w.qpc[t], w.gProfiler.m_FrameIndex * TicksPerFrame) + 1]

(***************************************************************************)
(* Scratch pages of the event names                                        *)
(***************************************************************************)
\* a ProfilerAllocator without pages; pages are numbered in the order Page::Create made
\* them and PageID[n] is Page::ID of page n; Released lists the pointers handed to
\* Page::Release
NewProfilerAllocator ==
    [FreePages |-> <<>>, AllocatedPages |-> <<>>, PageID |-> <<>>, MinValidID |-> 0, Released |-> <<>>]
\* a thread's SubAllocator (thread_local gAllocator) before its first allocation
NewSubAllocator == [ID |-> 0, pPage |-> NoPage]

\* ProfilerAllocator::AllocatePage(id): the allocator afterwards, and the page returned
\* (the one pushed last to AllocatedPages)
ProfilerAllocator_AllocatePage(a, id) ==
    IF a.FreePages = <<>>
    THEN [a EXCEPT !.PageID = Append(@, id),
                   !.AllocatedPages = Append(@, Len(a.PageID) + 1)]
    ELSE LET pPage == a.FreePages[Len(a.FreePages)]
         IN  [a EXCEPT !.FreePages = SubSeq(@, 1, Len(@) - 1),
                       !.PageID[pPage] = id,
                       !.AllocatedPages = Append(@, pPage)]
AllocatePage_Result(a) == a.AllocatedPages[Len(a.AllocatedPages)]

\* ProfilerAllocator::IsValidPage
IsValidPage(a, id) == id >= a.MinValidID

\* ProfilerAllocator::Evict lines 281-293: the pages at the front of AllocatedPages
\* whose ID is at most id go to the free list
RECURSIVE EvictPages(_, _)
EvictPages(a, id) ==
    IF a.AllocatedPages # <<>> /\ id >= a.PageID[Head(a.AllocatedPages)]
    THEN EvictPages([a EXCEPT !.FreePages = Append(@, Head(a.AllocatedPages)),
                              !.AllocatedPages = Tail(@)], id)
    ELSE a
\* ProfilerAllocator::Evict
ProfilerAllocator_Evict(a, id) == [EvictPages(a, id) EXCEPT !.MinValidID = id + 1]

\* ProfilerAllocator::Release lines 237-242: every page of the queue is released and popped
RECURSIVE ReleaseAllocatedPages(_)
ReleaseAllocatedPages(a) ==
    IF a.AllocatedPages # <<>>
    THEN ReleaseAllocatedPages([a EXCEPT !.Released = Append(@, Head(a.AllocatedPages)),
                                         !.AllocatedPages = Tail(@)])
    ELSE a

\* ProfilerAllocator::Release lines 243-248: the loop runs while FreePages is empty. A
\* list with pages is left as it is. On an empty list back() and pop_back() are
\* undefined behaviour: ub = "crash" stops the program; ub = "stray" releases the word
\* in front of the storage and pop_back leaves a list that is not empty any more, which
\* ends the loop (the content of the list is indeterminate, shown as NoPage)
ReleaseFreePages(w, ub) ==
    IF w.gProfiler.m_Allocator.FreePages = <<>>
    THEN IF ub = "crash" THEN Fail(w, "Release: FreePages.back() on an empty vector")
         ELSE [w EXCEPT !.gProfiler.m_Allocator.Released = Append(@, NoPage),
                        !.gProfiler.m_Allocator.FreePages = <<NoPage>>]
    ELSE w

\* ProfilerAllocator::Release
ProfilerAllocator_Release(w, ub) ==
    ReleaseFreePages([w EXCEPT !.gProfiler.m_Allocator = ReleaseAllocatedPages(@)], ub)

\* SubAllocator::Allocate(size, id) on thread t; the names of one frame of one thread
\* fit a page (cPageSize = 2048 bytes), so Offset + size never exceeds the page
SubAllocator_Allocate(w, t, id) ==
    LET sub == w.tls[t].gAllocator
    IN  IF sub.pPage = NoPage \/ id > sub.ID \/ ~IsValidPage(w.gProfiler.m_Allocator, sub.ID)
        THEN LET a == ProfilerAllocator_AllocatePage(w.gProfiler.m_Allocator, Max(sub.ID, id))
             IN  [w EXCEPT !.gProfiler.m_Allocator = a,
                           !.tls[t].gAllocator = [ID |-> Max(sub.ID, id), pPage |-> AllocatePage_Result(a)]]
        ELSE w
\* SubAllocator::String(pStr, id) on thread t: the world after the allocation; the copy
\* of the name is in the page String_Page of that world
SubAllocator_String(w, t, id) == SubAllocator_Allocate(w, t, id)
String_Page(w, t) == w.tls[t].gAllocator.pPage

(***************************************************************************)
(* CPU recorder                                                            *)
(***************************************************************************)
\* EventTrack::GetFrameData: the ring slot of a frame
RingSlot(frameIndex) == frameIndex % HistorySize
GetFrameData(track, frameIndex) == track.Events[RingSlot(frameIndex)]

\* Profiler::GetFrameRange, as the set of frame indices Begin..End-1
GetFrameRange(p) ==
    LET begin == p.m_FrameIndex - Min(p.m_FrameIndex, p.m_HistorySize) + 1
        end == p.m_FrameIndex
    IN  {f \in 0..MaxFrames : begin <= f /\ f < end}

\* Profiler::Initialize
Profiler_Initialize(w, historySize) ==
    [w EXCEPT !.gProfiler.m_HistorySize = historySize,
              !.gProfiler.m_MsToTicks = MsToTicks,
              !.gProfiler.m_IsInitialized = TRUE]

\* a RegisterTrack that stores the size of m_Tracks after the emplace_back
NewTrackIndex_Size(sizeAfterEmplace) == sizeAfterEmplace

\* the Index RegisterTrack stores and returns: (uint32)m_Tracks.size() - 1, after the
\* emplace_back
NewTrackIndex(sizeAfterEmplace) == sizeAfterEmplace - 1

\* the value Profiler::RegisterTrack returned: the Index of the track added last
RegisterTrack_Result(w) == w.gProfiler.m_Tracks[Len(w.gProfiler.m_Tracks)].Index

\* Profiler::RegisterTrack; lockHeld: the caller already holds m_ThreadDataLock,
\* a std::mutex, which RegisterTrack locks again
Profiler_RegisterTrack(w, name, type, id, lockHeld) ==
    IF lockHeld THEN Fail(w, "RegisterTrack: m_ThreadDataLock relocked by its owner")
    ELSE LET index == NewTrackIndex(Len(w.gProfiler.m_Tracks) + 1)
             data == [Name |-> name, Type |-> type, ID |-> id, Index |-> index, EventStack |-> <<>>,
                      Events |-> [s \in 0..(w.gProfiler.m_HistorySize - 1) |-> <<>>]]
         IN  [w EXCEPT !.gProfiler.m_Tracks = Append(@, data)]

\* GetThreadDescription of thread t, the name used when pName is nullptr
ThreadDescription(t) == t
\* pName = nullptr
NoName == ""

\* a RegisterCurrentThread that does not look at the thread's index
Profiler_RegisterCurrentThread_Always(w, t, pName, lockHeld) ==
    LET pLocalName == IF pName = NoName THEN ThreadDescription(t) ELSE pName
        r == Profiler_RegisterTrack(w, pLocalName, "CPU", t, lockHeld)
    IN  IF r.fault # NoFault THEN r ELSE [r EXCEPT !.tls[t].index = RegisterTrack_Result(r)]

\* Profiler::RegisterCurrentThread(pName) on thread t
Profiler_RegisterCurrentThread(w, t, pName, lockHeld) ==
    LET pLocalName == IF pName = NoName THEN ThreadDescription(t) ELSE pName
    IN  IF w.tls[t].index = NoTrack
        THEN LET r == Profiler_RegisterTrack(w, pLocalName, "CPU", t, lockHeld)
             IN  IF r.fault # NoFault THEN r
                 ELSE [r EXCEPT !.tls[t].index = RegisterTrack_Result(r)]
        ELSE [w EXCEPT !.gProfiler.m_Tracks[w.tls[t].index + 1].Name = pLocalName]

\* Profiler::GetCurrentThreadTrack: registers the thread on first use
Profiler_GetCurrentThreadTrack(w, t, lockHeld) ==
    IF w.tls[t].index = NoTrack THEN Profiler_RegisterCurrentThread(w, t, NoName, lockHeld) ELSE w

\* FixedArray::Push: Length++; gAssert(Length < N)
FixedArray_PushOk(stack) == Len(stack) + 1 < MAX_STACK_DEPTH

\* a BeginEvent that stores the stack size after the Push
BeginDepth_SizeAfterPush(sizeAfterPush) == sizeAfterPush

\* the Depth BeginEvent stores: track.EventStack.GetSize() - 1, after the Push
BeginDepth(sizeAfterPush) == sizeAfterPush - 1

\* Profiler::BeginEvent on thread t
Profiler_BeginEvent(w, t, name, color, lockHeld) ==
    IF w.fault # NoFault \/ ~w.gProfiler.m_IsInitialized \/ w.gProfiler.m_Paused THEN w
    ELSE LET r == Profiler_GetCurrentThreadTrack(w, t, lockHeld)
         IN  IF r.fault # NoFault THEN r
             ELSE LET ti == r.tls[t].index + 1
                      track == r.gProfiler.m_Tracks[ti]
                      slot == RingSlot(r.gProfiler.m_FrameIndex)
                      eventData == track.Events[slot]
                  IN  IF ~FixedArray_PushOk(track.EventStack)
                      THEN Fail(r, "FixedArray::Push: Length < N")
                      ELSE LET stack == Append(track.EventStack, Len(eventData))
                               named == SubAllocator_String(r, t, r.gProfiler.m_FrameIndex)
                               c == QueryPerformanceCounter(named, t)
                               newEvent == [NewEvent EXCEPT
                                              !.pName = name,
                                              !.pNamePage = String_Page(named, t),
                                              !.Depth = BeginDepth(Len(stack)) % 256,
                                              !.ThreadIndex = track.Index % 1024,
                                              !.Color = IF color = 0 THEN ColorFromString ELSE color,
                                              !.TicksBegin = c.qpc[t]]
                           IN  [c EXCEPT !.gProfiler.m_Tracks[ti].EventStack = stack,
                                         !.gProfiler.m_Tracks[ti].Events[slot] = Append(eventData, newEvent)]

\* an EndEvent without its assertion
EndEventAsserts_Unchecked(stack) == FALSE
\* Profiler::EndEvent line 576: gAssert(track.EventStack.GetSize() > 0) fails
EndEventAsserts(stack) == ~(Len(stack) > 0)

\* Profiler::EndEvent on thread t.  The popped index is applied to the buffer of the
\* frame that is current now; past its end the write is out of bounds (undefined
\* behaviour): ub = "crash" stops the program, ub = "stray" writes outside the events
Profiler_EndEvent(w, t, ub) ==
    IF w.fault # NoFault \/ ~w.gProfiler.m_IsInitialized \/ w.gProfiler.m_Paused THEN w
    ELSE LET r == Profiler_GetCurrentThreadTrack(w, t, FALSE)
             ti == r.tls[t].index + 1
             track == r.gProfiler.m_Tracks[ti]
             slot == RingSlot(r.gProfiler.m_FrameIndex)
             n == Len(track.EventStack)
         IN  IF EndEventAsserts(track.EventStack)
             THEN Fail(r, "EndEvent: Called EndEvent more than BeginEvent")
             ELSE IF n = 0 THEN Fail(r, "FixedArray::Pop: Length > 0")
             ELSE LET eventIndex == track.EventStack[n]
                      popped == [r EXCEPT !.gProfiler.m_Tracks[ti].EventStack = SubSeq(@, 1, n - 1)]
                  IN  IF eventIndex >= Len(track.Events[slot])
                      THEN IF ub = "crash" THEN Fail(popped, "EndEvent: event index out of bounds")
                           ELSE popped
                      ELSE LET c == QueryPerformanceCounter(popped, t)
                           IN  [c EXCEPT !.gProfiler.m_Tracks[ti].Events[slot][eventIndex + 1].TicksEnd = c.qpc[t]]

\* a SetPaused that takes effect at once
Profiler_SetPaused_Immediate(w, paused) ==
    [w EXCEPT !.gProfiler.m_QueuedPaused = paused, !.gProfiler.m_Paused = paused]

\* Profiler::SetPaused
Profiler_SetPaused(w, paused) == [w EXCEPT !.gProfiler.m_QueuedPaused = paused]

\* Profiler::AddEvent, called by GPUProfiler::Tick and Profiler::Present on the frame
\* thread: the name is copied into a scratch page of that thread
Profiler_AddEvent(w, trackIndex, event, frameIndex) ==
    LET named == SubAllocator_String(w, FrameThread, frameIndex)
        newEvent == [event EXCEPT !.pNamePage = String_Page(named, FrameThread)]
    IN  [named EXCEPT !.gProfiler.m_Tracks[trackIndex + 1].Events[RingSlot(frameIndex)] = Append(@, newEvent)]

\* a Tick that forgets events.clear()
ClearFrame_NoClear(tracks, frameIndex) == tracks

\* Profiler::Tick lines 750-758: the tracks' buffers of the new frame are cleared
ClearFrame(tracks, frameIndex) ==
    [i \in 1..Len(tracks) |-> [tracks[i] EXCEPT !.Events[RingSlot(frameIndex)] = <<>>]]

\* Profiler::Tick, called by thread t
Profiler_Tick(w, t, ub) ==
    IF w.fault # NoFault \/ ~w.gProfiler.m_IsInitialized THEN w
    ELSE LET a == [w EXCEPT !.gProfiler.m_Paused = w.gProfiler.m_QueuedPaused]
         IN  IF a.gProfiler.m_Paused THEN a
             ELSE LET b == IF a.gProfiler.m_FrameIndex # 0 THEN Profiler_EndEvent(a, t, ub) ELSE a
                  IN  IF b.fault # NoFault THEN b
                      ELSE LET f == b.gProfiler.m_FrameIndex + 1
                               c == [b EXCEPT !.gProfiler.m_FrameIndex = f,
                                              !.gProfiler.m_Tracks = ClearFrame(@, f)]
                               d == Profiler_BeginEvent(c, t, "CPU Frame", GetFrameColor(f), TRUE)
                           IN  IF d.fault = NoFault /\ f >= d.gProfiler.m_HistorySize
                               THEN [d EXCEPT !.gProfiler.m_Allocator =
                                                  ProfilerAllocator_Evict(@, f - d.gProfiler.m_HistorySize)]
                               ELSE d

(***************************************************************************)
(* GPU recorder: query heaps                                               *)
(***************************************************************************)
\* QueryHeap::cMaxNumQueries at the width of the source: (1u << cQueryIndexBits) - 1u
cMaxNumQueries == 65535
\* CommandListState::Query::EndEventFlag and InvalidEventFlag
EndEventFlag == 65534
InvalidEventFlag == 65535
\* the default of QueryPair::QueryIndexBegin / QueryIndexEnd and of Query::QueryIndex
InvalidQueryIndex == 65535
\* what RecordQuery returns past the capacity: 0xFFFFFFFF, (uint32)-1
QuerySentinel32 == -1
\* a value stored in a 16-bit bit-field
Truncate16(v) == v % 65536

\* D3D12_COMMAND_LIST_TYPE as an integer
ListTypeValue(type) ==
    CASE type = "DIRECT" -> 0 [] type = "BUNDLE" -> 1 [] type = "COMPUTE" -> 2 [] type = "COPY" -> 3

\* GetHeap(bool isCopyQueue), called with pCmd->GetType(): any type but DIRECT converts to true
GetHeapOfType(type) == IF ListTypeValue(type) # 0 THEN 1 ELSE 0
\* QueueInfo::QueryHeapIndex
QueryHeapIndexOfQueue(type) == IF type = "COPY" THEN 1 ELSE 0

\* a QueryHeap before Initialize; Fence is the completed value of *m_pResolveFence,
\* Pending the resolves submitted to m_pResolveQueue that the GPU has not executed
NewQueryHeap(frameLatency) ==
    [IsInitialized |-> FALSE, m_MaxNumQueries |-> 0, m_QueryIndex |-> 0,
     m_LastCompletedFence |-> 0, Fence |-> 0, Pending |-> <<>>,
     m_ReadbackData |-> [b \in 0..(frameLatency - 1) |-> <<>>]]

\* QueryHeap::Initialize: the mapped readback buffer starts zeroed
QueryHeap_Initialize(heap, maxNumQueries, frameLatency) ==
    [heap EXCEPT !.IsInitialized = TRUE, !.m_MaxNumQueries = maxNumQueries,
                 !.m_ReadbackData = [b \in 0..(frameLatency - 1) |-> [k \in 1..maxNumQueries |-> 0]]]

\* QueryHeap::RecordQuery: the index returned, and the heap afterwards
RecordQuery_Result(heap) ==
    IF heap.m_QueryIndex >= heap.m_MaxNumQueries THEN QuerySentinel32 ELSE heap.m_QueryIndex
\* a RecordQuery whose counter is read and not advanced
RecordQuery_Heap_Stale(heap) == heap
\* QueryHeap::RecordQuery line 455: m_QueryIndex.fetch_add(1)
RecordQuery_Heap(heap) == [heap EXCEPT !.m_QueryIndex = @ + 1]

\* the timestamp the GPU writes for query `index` of heap-frame `frameIndex`
GpuTimestamp(frameIndex, index) == GpuClockAtCalibration + frameIndex * TicksPerFrame + index + 1

\* QueryHeap::Resolve: ResolveQueryData of min(capacity, m_QueryIndex) queries into the
\* readback region of frameIndex % m_FrameLatency, then Signal(fence, frameIndex)
QueryHeap_Resolve(heap, frameIndex) ==
    IF ~heap.IsInitialized THEN heap
    ELSE [heap EXCEPT !.Pending = Append(@, [frame |-> frameIndex,
                                             numQueries |-> Min(heap.m_MaxNumQueries, heap.m_QueryIndex)])]

\* the GPU executes the oldest submitted resolve and signals its fence value
QueryHeap_Execute(heap, frameLatency) ==
    LET job == Head(heap.Pending)
        bit == job.frame % frameLatency
    IN  [heap EXCEPT !.Pending = Tail(@),
                     !.Fence = job.frame,
                     !.m_ReadbackData[bit] =
                         [k \in 1..heap.m_MaxNumQueries |->
                            IF k <= job.numQueries THEN GpuTimestamp(job.frame, k - 1) ELSE @[k]]]

\* QueryHeap::IsFrameComplete: the answer, and the heap afterwards (the cached fence value)
IsFrameComplete_Result(heap, frameIndex) ==
    IF ~heap.IsInitialized THEN TRUE
    ELSE IF frameIndex <= heap.m_LastCompletedFence /\ heap.m_LastCompletedFence > 0 THEN TRUE
    ELSE frameIndex <= Max(heap.Fence, heap.m_LastCompletedFence)
IsFrameComplete_Heap(heap, frameIndex) ==
    IF ~heap.IsInitialized THEN heap
    ELSE IF frameIndex <= heap.m_LastCompletedFence /\ heap.m_LastCompletedFence > 0 THEN heap
    ELSE [heap EXCEPT !.m_LastCompletedFence = Max(heap.Fence, @)]

\* SetEventOnCompletion(value, nullptr): returns once the fence has reached value; the
\* GPU executes the submitted resolves meanwhile
RECURSIVE WaitForFence(_, _, _)
WaitForFence(heap, value, frameLatency) ==
    IF heap.Fence >= value \/ heap.Pending = <<>> THEN heap
    ELSE WaitForFence(QueryHeap_Execute(heap, frameLatency), value, frameLatency)

\* QueryHeap::Reset
QueryHeap_Reset(heap, frameIndex, frameLatency) ==
    IF ~heap.IsInitialized THEN heap
    ELSE LET waited ==
               IF frameIndex >= frameLatency
               THEN LET waitFrame == frameIndex - frameLatency
                        polled == IsFrameComplete_Heap(heap, waitFrame)
                    IN  IF ~IsFrameComplete_Result(heap, waitFrame)
                        THEN WaitForFence(polled, waitFrame, frameLatency)
                        ELSE polled
               ELSE heap
         IN  [waited EXCEPT !.m_QueryIndex = 0]

(***************************************************************************)
(* GPU recorder                                                            *)
(***************************************************************************)
\* QueryData::QueryPair and CommandListState::Query, value-initialised
NewQueryPair == [QueryIndexBegin |-> InvalidQueryIndex, QueryIndexEnd |-> InvalidQueryIndex]
NewQuery == [QueryIndex |-> InvalidEventFlag, EventIndex |-> InvalidEventFlag]
\* QueryPair::IsValid
QueryPair_IsValid(pair) ==
    pair.QueryIndexBegin # InvalidQueryIndex /\ pair.QueryIndexEnd # InvalidQueryIndex

\* GPUProfiler::Initialize lines 126-136 at the widths of the source: the size of Events
\* and Pairs, from the capacities of the two query heaps (0: the heap is not initialised)
EventsSize(heapCapacity) == (heapCapacity[0] + heapCapacity[1]) \div 2

\* no marker recorded; read tells how ExecuteCommandLists took the marker
NoMarker == [heapCapacity |-> [h \in {0, 1} |-> 0], m_EventIndex |-> 0, recorded |-> FALSE,
             assigned |-> FALSE, query |-> NewQuery, read |-> "none"]

\* GPUProfiler::BeginEvent lines 165-180 on the marker (the QueryIndex is left out): the
\* Query is emplaced, m_EventIndex is fetched and incremented, and EventIndex is
\* stored in its 16-bit field unless the index is beyond Events.size()
Marker_BeginEvent(m) ==
    LET eventIndex == m.m_EventIndex
        fetched == [m EXCEPT !.recorded = TRUE, !.query = NewQuery, !.m_EventIndex = eventIndex + 1]
    IN  IF eventIndex >= EventsSize(m.heapCapacity) THEN fetched
        ELSE [fetched EXCEPT !.assigned = TRUE, !.query.EventIndex = Truncate16(eventIndex)]

\* GPUProfiler::ExecuteCommandLists lines 297-315 on the marker: which branch takes it
Marker_Execute(m) ==
    IF m.query.EventIndex # EndEventFlag
    THEN IF m.query.EventIndex = InvalidEventFlag
         THEN [m EXCEPT !.read = "dropped"]
         ELSE [m EXCEPT !.read = "begin"]
    ELSE [m EXCEPT !.read = "end"]

\* GPUProfiler::GetQueryData(frameIndex): the slot of a frame
QuerySlot(g, frameIndex) == frameIndex % g.m_FrameLatency

\* the number of events a frame holds: Events.size() == Pairs.size()
EventCapacity(g) == Len(g.m_QueryData[0].Events)

\* GPUProfiler::ConvertToCPUTicks without its assertion, in unsigned arithmetic of
\* TickBits bits
ConvertToCPUTicks(cpuCalibrationTicks, gpuCalibrationTicks, cpuFrequency, gpuFrequency, gpuTicks) ==
    (cpuCalibrationTicks
       + ((((gpuTicks - gpuCalibrationTicks) % TickModulus) * cpuFrequency) % TickModulus)
           \div gpuFrequency) % TickModulus

\* GPUProfiler::Initialize lines 101-123, one queue: the QueueInfo, the heap and the track
RECURSIVE GPUProfiler_AddQueues(_, _, _)
GPUProfiler_AddQueues(w, queues, frameLatency) ==
    IF queues = <<>> \/ w.fault # NoFault THEN w
    ELSE LET type == Head(queues)
             queueIndex == Len(w.gGPUProfiler.m_Queues)
             heapIndex == QueryHeapIndexOfQueue(type)
             heap == w.gGPUProfiler.m_QueryHeaps[heapIndex]
             a == IF heap.IsInitialized THEN w
                  ELSE IF ~w.gProfiler.m_IsInitialized
                       THEN Fail(w, "QueryHeap::Initialize: gProfiler.IsInitialized()")
                       ELSE [w EXCEPT !.gGPUProfiler.m_QueryHeaps[heapIndex] =
                                          QueryHeap_Initialize(heap, MaxNumQueries, frameLatency)]
             b == Profiler_RegisterTrack(a, type, "GPU", queueIndex, FALSE)
             info == [Type |-> type, Index |-> queueIndex, QueryHeapIndex |-> heapIndex,
                      GPUCalibrationTicks |-> GpuClockAtCalibration,
                      CPUCalibrationTicks |-> w.gProfiler.m_FrameIndex * TicksPerFrame,
                      GPUFrequency |-> GpuTickFrequency,
                      TrackIndex |-> RegisterTrack_Result(b)]
         IN  IF b.fault # NoFault THEN b
             ELSE GPUProfiler_AddQueues(
                      [b EXCEPT !.gGPUProfiler.m_Queues = Append(@, info),
                                !.gGPUProfiler.m_QueueEventStack = Append(@, <<>>)],
                      Tail(queues), frameLatency)

\* GPUProfiler::Initialize
GPUProfiler_Initialize(w, queues, frameLatency) ==
    IF frameLatency < 1 THEN Fail(w, "Initialize: Frame Latency must be at least 1")
    ELSE LET a == GPUProfiler_AddQueues(
                      [w EXCEPT !.gGPUProfiler.m_FrameLatency = frameLatency,
                                !.gGPUProfiler.m_CPUTickFrequency = CpuTickFrequency,
                                !.gGPUProfiler.m_QueryHeaps =
                                    [h \in {0, 1} |-> NewQueryHeap(frameLatency)]],
                      queues, frameLatency)
             queryCapacity == a.gGPUProfiler.m_QueryHeaps[0].m_MaxNumQueries
                              + a.gGPUProfiler.m_QueryHeaps[1].m_MaxNumQueries
             n == queryCapacity \div 2
         IN  IF a.fault # NoFault THEN a
             ELSE [a EXCEPT !.gGPUProfiler.m_QueryData =
                                [b \in 0..(frameLatency - 1) |->
                                    [Pairs |-> [i \in 1..n |-> NewQueryPair],
                                     Events |-> [i \in 1..n |-> NewEvent],
                                     NumEvents |-> 0]],
                            !.gGPUProfiler.m_IsInitialized = TRUE]

\* the thread that records command list cmd
RecordingThread(cmd) == IF cmd = "cmd3" THEN "worker" ELSE FrameThread

\* GPUProfiler::BeginEvent on command list cmd of the given type
GPUProfiler_BeginEvent(w, cmd, type, name) ==
    LET g == w.gGPUProfiler
    IN  IF w.fault # NoFault \/ ~g.m_IsInitialized \/ g.m_IsPaused THEN w
        ELSE LET slot == QuerySlot(g, g.m_FrameIndex)
                 eventIndex == g.m_EventIndex
                 h == GetHeapOfType(type)
                 a == [w EXCEPT !.gGPUProfiler.m_EventIndex = @ + 1]
             IN  IF eventIndex >= Len(g.m_QueryData[slot].Events)
                 THEN [a EXCEPT !.gGPUProfiler.m_CommandListMap[cmd] = Append(@, NewQuery)]
                 ELSE LET query == [QueryIndex |-> Truncate16(RecordQuery_Result(g.m_QueryHeaps[h])),
                                    EventIndex |-> Truncate16(eventIndex)]
                          named == SubAllocator_String(a, RecordingThread(cmd), g.m_FrameIndex)
                      IN  [named EXCEPT
                                    !.gGPUProfiler.m_QueryData[slot].Events[eventIndex + 1].pNamePage =
                                        String_Page(named, RecordingThread(cmd)),
                                    !.gGPUProfiler.m_CommandListMap[cmd] = Append(@, query),
                                    !.gGPUProfiler.m_QueryHeaps[h] = RecordQuery_Heap(@),
                                    !.gGPUProfiler.m_QueryData[slot].Events[eventIndex + 1].pName = name,
                                    !.gGPUProfiler.m_QueryData[slot].Events[eventIndex + 1].Color = ColorFromString]

\* GPUProfiler::EndEvent on command list cmd of the given type
GPUProfiler_EndEvent(w, cmd, type) ==
    LET g == w.gGPUProfiler
    IN  IF w.fault # NoFault \/ ~g.m_IsInitialized \/ g.m_IsPaused THEN w
        ELSE LET h == GetHeapOfType(type)
                 query == [QueryIndex |-> Truncate16(RecordQuery_Result(g.m_QueryHeaps[h])),
                           EventIndex |-> EndEventFlag]
             IN  [w EXCEPT !.gGPUProfiler.m_CommandListMap[cmd] = Append(@, query),
                           !.gGPUProfiler.m_QueryHeaps[h] = RecordQuery_Heap(@)]

\* GPUProfiler::SetPaused
GPUProfiler_SetPaused(w, paused) == [w EXCEPT !.gGPUProfiler.m_PauseQueued = paused]

\* the Depth ExecuteCommandLists stores: eventStack.GetSize(), after the Pop
PopDepth(sizeAfterPop) == sizeAfterPop

\* GPUProfiler::ExecuteCommandLists lines 297-327: the markers of the submitted lists,
\* replayed in order against the queue's stack of active events
RECURSIVE ReplayQueries(_, _, _)
ReplayQueries(w, queueIndex, queries) ==
    IF queries = <<>> \/ w.fault # NoFault THEN w
    ELSE LET g == w.gGPUProfiler
             slot == QuerySlot(g, g.m_FrameIndex)
             query == Head(queries)
             eventStack == g.m_QueueEventStack[queueIndex + 1]
         IN  IF query.EventIndex # EndEventFlag
             THEN IF Len(eventStack) + 1 >= MAX_EVENT_DEPTH
                  THEN Fail(w, "FixedArray::Push: Length < N")
                  ELSE LET a == [w EXCEPT !.gGPUProfiler.m_QueueEventStack[queueIndex + 1] =
                                              Append(@, query)]
                       IN  IF query.EventIndex = InvalidEventFlag
                           THEN ReplayQueries(a, queueIndex, Tail(queries))
                           ELSE ReplayQueries(
                                    [a EXCEPT !.gGPUProfiler.m_QueryData[slot]
                                                 .Events[query.EventIndex + 1].QueueIndex = queueIndex % 16],
                                    queueIndex, Tail(queries))
             ELSE IF Len(eventStack) = 0
                  THEN Fail(w, "ExecuteCommandLists: Event Begin/End mismatch")
                  ELSE LET beginEventQuery == eventStack[Len(eventStack)]
                           rest == SubSeq(eventStack, 1, Len(eventStack) - 1)
                           a == [w EXCEPT !.gGPUProfiler.m_QueueEventStack[queueIndex + 1] = rest]
                           i == beginEventQuery.EventIndex + 1
                       IN  IF beginEventQuery.EventIndex = InvalidEventFlag
                           THEN ReplayQueries(a, queueIndex, Tail(queries))
                           ELSE IF g.m_QueryData[slot].Events[i].QueueIndex # queueIndex
                                THEN Fail(a, "ExecuteCommandLists: Begin/EndEvent must be recorded on the same queue")
                                ELSE ReplayQueries(
                                         [a EXCEPT !.gGPUProfiler.m_QueryData[slot].Pairs[i] =
                                                       [QueryIndexBegin |-> beginEventQuery.QueryIndex,
                                                        QueryIndexEnd |-> query.QueryIndex],
                                                   !.gGPUProfiler.m_QueryData[slot].Events[i].Depth =
                                                       PopDepth(Len(rest)) % 256],
                                         queueIndex, Tail(queries))

\* the markers of a sequence of command lists, in submission order
RECURSIVE QueriesOf(_, _)
QueriesOf(g, commandLists) ==
    IF commandLists = <<>> THEN <<>>
    ELSE g.m_CommandListMap[Head(commandLists)] \o QueriesOf(g, Tail(commandLists))

\* GPUProfiler::ExecuteCommandLists; queueIndex = -1: a queue that was not registered
GPUProfiler_ExecuteCommandLists(w, queueIndex, commandLists) ==
    LET g == w.gGPUProfiler
    IN  IF w.fault # NoFault \/ ~g.m_IsInitialized \/ g.m_IsPaused THEN w
        ELSE IF queueIndex < 0 \/ queueIndex >= Len(g.m_Queues) THEN w
        ELSE LET slot == QuerySlot(g, g.m_FrameIndex)
                 a == [w EXCEPT !.gGPUProfiler.m_QueryData[slot].NumEvents = g.m_EventIndex]
                 b == ReplayQueries(a, queueIndex, QueriesOf(g, commandLists))
             IN  IF b.fault # NoFault THEN b
                 ELSE [b EXCEPT !.gGPUProfiler.m_CommandListMap =
                                    [c \in DOMAIN @ |->
                                        IF \E k \in 1..Len(commandLists) : commandLists[k] = c
                                        THEN <<>> ELSE @[c]]]

\* GPUProfiler::Tick lines 230-247: event i of the frame being read back
RECURSIVE ReadbackEvents(_, _, _)
ReadbackEvents(w, i, ub) ==
    LET g == w.gGPUProfiler
        frame == g.m_FrameToReadback
        queryData == g.m_QueryData[QuerySlot(g, frame)]
    IN  IF w.fault # NoFault \/ i >= queryData.NumEvents THEN w
        ELSE IF i >= Len(queryData.Events)
        THEN IF ub = "crash" THEN Fail(w, "Tick: Events read out of bounds")
             ELSE Fail(w, "Tick: queryRange.IsValid()")
        ELSE LET event == queryData.Events[i + 1]
                 queryRange == queryData.Pairs[i + 1]
             IN  IF ~QueryPair_IsValid(queryRange) THEN Fail(w, "Tick: queryRange.IsValid()")
                 ELSE IF event.QueueIndex >= Len(g.m_Queues) THEN Fail(w, "Tick: m_Queues read out of bounds")
                 ELSE LET queue == g.m_Queues[event.QueueIndex + 1]
                          queries == g.m_QueryHeaps[queue.QueryHeapIndex].m_ReadbackData[QuerySlot(g, frame)]
                          gpuBegin == queries[queryRange.QueryIndexBegin + 1]
                          gpuEnd == queries[queryRange.QueryIndexEnd + 1]
                          convert(t) == ConvertToCPUTicks(queue.CPUCalibrationTicks, queue.GPUCalibrationTicks,
                                                          g.m_CPUTickFrequency, queue.GPUFrequency, t)
                          resolved == [event EXCEPT !.TicksBegin = convert(gpuBegin),
                                                    !.TicksEnd = convert(gpuEnd)]
                      IN  IF gpuBegin < queue.GPUCalibrationTicks \/ gpuEnd < queue.GPUCalibrationTicks
                          THEN Fail(w, "ConvertToCPUTicks: gpuTicks >= queue.GPUCalibrationTicks")
                          ELSE ReadbackEvents(
                                   Profiler_AddEvent(
                                       [w EXCEPT !.gGPUProfiler.m_QueryData[QuerySlot(g, frame)].Events[i + 1] = resolved,
                                                 !.gGPUProfiler.m_QueryData[QuerySlot(g, frame)].Pairs[i + 1] = NewQueryPair],
                                       queue.TrackIndex, resolved, frame),
                                   i + 1, ub)

\* GPUProfiler::Tick line 248, with the count kept
ResetNumEvents_Keep(queryData) == queryData
\* GPUProfiler::Tick line 248: queryData.NumEvents = 0
ResetNumEvents(queryData) == [queryData EXCEPT !.NumEvents = 0]

\* GPUProfiler::Tick lines 218-251: the frames whose resolves all heaps report complete
RECURSIVE ReadbackFrames(_, _)
ReadbackFrames(w, ub) ==
    LET g == w.gGPUProfiler
        frame == g.m_FrameToReadback
    IN  IF w.fault # NoFault \/ frame >= g.m_FrameIndex THEN w
        ELSE LET allHeapsReady == \A h \in {0, 1} : IsFrameComplete_Result(g.m_QueryHeaps[h], frame)
                 polled == [w EXCEPT !.gGPUProfiler.m_QueryHeaps =
                                        [h \in {0, 1} |-> IsFrameComplete_Heap(@[h], frame)]]
             IN  IF ~allHeapsReady THEN polled
                 ELSE LET r == ReadbackEvents(polled, 0, ub)
                      IN  IF r.fault # NoFault THEN r
                          ELSE ReadbackFrames(
                                   [r EXCEPT !.gGPUProfiler.m_QueryData[QuerySlot(g, frame)] = ResetNumEvents(@),
                                             !.gGPUProfiler.m_FrameToReadback = frame + 1],
                                   ub)

\* GPUProfiler::Tick lines 214-215, with the check left out
QueueStacksEmpty_Unchecked(g) == TRUE
\* GPUProfiler::Tick lines 214-215: stack.GetSize() == 0 for every queue
QueueStacksEmpty(g) == \A q \in 1..Len(g.m_QueueEventStack) : Len(g.m_QueueEventStack[q]) = 0

\* GPUProfiler::Tick
GPUProfiler_Tick(w, ub) ==
    LET g == w.gGPUProfiler
    IN  IF w.fault # NoFault \/ ~g.m_IsInitialized THEN w
        ELSE IF ~QueueStacksEmpty(g)
        THEN Fail(w, "Tick: EventStack for the CommandQueue should be empty")
        ELSE LET a == ReadbackFrames(w, ub)
                 b == [a EXCEPT !.gGPUProfiler.m_IsPaused = a.gGPUProfiler.m_PauseQueued]
             IN  IF b.fault # NoFault \/ b.gGPUProfiler.m_IsPaused THEN b
                 ELSE IF \E c \in DOMAIN g.m_CommandListMap : g.m_CommandListMap[c] # <<>>
                 THEN Fail(b, "Tick: The Queries inside the commandlist is not empty")
                 ELSE LET f == g.m_FrameIndex
                          L == g.m_FrameLatency
                      IN  [b EXCEPT !.gGPUProfiler.m_QueryHeaps =
                                        [h \in {0, 1} |-> QueryHeap_Reset(QueryHeap_Resolve(@[h], f), f + 1, L)],
                                    !.gGPUProfiler.m_FrameIndex = f + 1,
                                    !.gGPUProfiler.m_EventIndex = 0]

\* PROFILE_FRAME(): gProfiler.Tick(); gGPUProfiler.Tick()
ProfileFrame(w, t, ub) == GPUProfiler_Tick(Profiler_Tick(w, t, ub), ub)

(***************************************************************************)
(* Present tracker                                                         *)
(***************************************************************************)
\* PresentEntry::sQPCDroppedFrame (~0ull) and sQPCMissedFrame (~0ull - 1), in TickBits bits
sQPCDroppedFrame == TickModulus - 1
sQPCMissedFrame == TickModulus - 2
\* the default PresentID, ~0u
NoPresentID == -1
\* a PresentEntry, value-initialised
NewPresentEntry == [PresentQPC |-> sQPCDroppedFrame, DisplayQPC |-> sQPCDroppedFrame,
                    PresentID |-> NoPresentID, FrameIndex |-> 0]

\* Profiler::GetPresentEntry: the slot of presentID, and whether the lookup
\* (isNewEntry = false) returns an entry
PresentSlot(presentID) == presentID % PresentQueueSize
GetPresentEntry(p, presentID) == p.m_PresentQueue[PresentSlot(presentID)]
HasPresentEntry(p, presentID) == GetPresentEntry(p, presentID).PresentID = presentID

\* the display: refresh r happens at this QPC time
VSyncTime(r) == FirstVSyncTime + (r - 1) * RefreshInterval
\* QueryPerformanceCounter in Profiler::Present
PresentNow(sc) == IF sc.refreshCount = 0 THEN FirstVSyncTime - 1 ELSE VSyncTime(sc.refreshCount) + 1

\* a refresh of the display: it shows present `shown` (the presents queued before it
\* are discarded) or, with shown = 0, nothing new; the frame statistics follow
CanVSync(sc, shown) ==
    /\ sc.refreshCount < MaxRefreshes
    /\ shown = 0 \/ (sc.shown < shown /\ shown <= sc.presentCount)
SwapChain_VSync(sc, shown) ==
    IF shown = 0 THEN [sc EXCEPT !.refreshCount = @ + 1]
    ELSE [sc EXCEPT !.refreshCount = @ + 1, !.shown = shown,
                    !.stats = [PresentCount |-> shown, SyncQPCTime |-> VSyncTime(sc.refreshCount + 1),
                               SyncRefreshCount |-> sc.refreshCount + 1]]

\* Profiler::Present lines 602-622: the entry of the current present
Present_Register(p, sc) ==
    LET presentID == sc.presentCount
        reset == IF p.m_LastQueuedPresentID > presentID \/ p.m_pPresentSwapChain # "swapchain"
                 THEN [p EXCEPT !.m_LastQueriedPresentID = 0, !.m_LastProcessedPresentID = 0,
                                !.m_LastProcessedValidPresentID = 0,
                                !.m_PresentQueue = [i \in 0..(PresentQueueSize - 1) |-> NewPresentEntry],
                                !.m_LastSyncRefreshCount = 0, !.m_pPresentSwapChain = "swapchain"]
                 ELSE p
    IN  [reset EXCEPT !.m_PresentQueue[PresentSlot(presentID)] =
                          [PresentQPC |-> PresentNow(sc), DisplayQPC |-> sQPCDroppedFrame,
                           PresentID |-> presentID, FrameIndex |-> p.m_FrameIndex],
                      !.m_LastQueuedPresentID = presentID]

\* Profiler::Present lines 627-661: the body of the statistics loop
Present_Poll(p, stats) ==
    LET count == stats.PresentCount
        a == IF HasPresentEntry(p, count)
             THEN [p EXCEPT !.m_PresentQueue[PresentSlot(count)].DisplayQPC = stats.SyncQPCTime]
             ELSE p
        numRefreshes == stats.SyncRefreshCount - p.m_LastSyncRefreshCount
        previous == GetPresentEntry(a, count - 1)
        previousPrevious == GetPresentEntry(a, count - 2)
        duration == (GetPresentEntry(a, count).DisplayQPC - previousPrevious.DisplayQPC) % TickModulus
        estimatedSyncTime == (previousPrevious.DisplayQPC + duration \div numRefreshes) % TickModulus
        b == IF /\ stats.SyncRefreshCount > 0 /\ numRefreshes > 1
                /\ HasPresentEntry(a, count - 1) /\ previous.DisplayQPC = sQPCDroppedFrame
             THEN IF HasPresentEntry(a, count - 2) /\ HasPresentEntry(a, count)
                  THEN [a EXCEPT !.m_PresentQueue[PresentSlot(count - 1)].DisplayQPC = estimatedSyncTime]
                  ELSE [a EXCEPT !.m_PresentQueue[PresentSlot(count - 1)].DisplayQPC = sQPCMissedFrame]
             ELSE a
    IN  [b EXCEPT !.m_LastSyncRefreshCount = stats.SyncRefreshCount,
                  !.m_LastQueriedPresentID = count]

\* Profiler::Present lines 624-662: the statistics loop; during[k] is the present shown
\* by a refresh that happens just before the k-th GetFrameStatistics call (0: no refresh)
RECURSIVE Present_PollLoop(_, _)
Present_PollLoop(w, during) ==
    LET sc == IF during # <<>> /\ Head(during) # 0 THEN SwapChain_VSync(w.swapChain, Head(during))
              ELSE w.swapChain
        a == [w EXCEPT !.swapChain = sc]
        rest == IF during = <<>> THEN <<>> ELSE Tail(during)
        succeeded == sc.stats.SyncRefreshCount > 0
    IN  IF succeeded /\ sc.stats.PresentCount > w.gProfiler.m_LastQueriedPresentID
        THEN Present_PollLoop([a EXCEPT !.gProfiler = Present_Poll(@, sc.stats)], rest)
        ELSE a

\* Profiler::Present lines 678-688: the entry the search ends on, the last entry from
\* m_LastProcessedValidPresentID to m_LastQueriedPresentID that is not a dropped frame
ValidPresents(p) ==
    {n \in p.m_LastProcessedValidPresentID..p.m_LastQueriedPresentID :
        HasPresentEntry(p, n) /\ GetPresentEntry(p, n).DisplayQPC # sQPCDroppedFrame}
NextValidPresent(p) == CHOOSE n \in ValidPresents(p) : \A m \in ValidPresents(p) : m <= n

\* a process loop that never waits for a later refresh
SameDisplayTime_Never(next, toProcess) == FALSE
\* Profiler::Present line 714: pNextValidPresentEntry->DisplayQPC == pToProcessEntry->DisplayQPC
SameDisplayTime(next, toProcess) == next.DisplayQPC = toProcess.DisplayQPC

\* a process loop that does not record how far it went
Present_MarkProcessed_Forgotten(w, presentID) == w
\* Profiler::Present line 730: m_LastProcessedPresentID = presentID
Present_MarkProcessed(w, presentID) == [w EXCEPT !.gProfiler.m_LastProcessedPresentID = presentID]

\* Profiler::Present lines 673-731: the entries up to the last queried present
RECURSIVE Present_Process(_, _, _)
Present_Process(w, presentID, stackSize) ==
    LET p == w.gProfiler
    IN  IF presentID >= p.m_LastQueriedPresentID \/ ValidPresents(p) = {} THEN w
        ELSE LET next == GetPresentEntry(p, NextValidPresent(p))
                 toProcess == GetPresentEntry(p, presentID)
                 a == [w EXCEPT !.gProfiler.m_LastProcessedValidPresentID = next.PresentID]
                 done(x) == Present_MarkProcessed(x, presentID)
             IN  IF ~HasPresentEntry(p, presentID) \/ toProcess.DisplayQPC = sQPCMissedFrame
                 THEN Present_Process(done(a), presentID + 1, stackSize)
                 ELSE IF toProcess.DisplayQPC = sQPCDroppedFrame
                 THEN Present_Process(
                          done(Profiler_AddEvent(a, p.m_PresentTrackIndex,
                                   [NewEvent EXCEPT !.pName = "Discarded",
                                                    !.Color = GetFrameColor(toProcess.FrameIndex),
                                                    !.Depth = 1,
                                                    !.TicksBegin = next.DisplayQPC,
                                                    !.TicksEnd = (next.DisplayQPC + p.m_MsToTicks) % TickModulus],
                                   toProcess.FrameIndex)),
                          presentID + 1, stackSize)
                 ELSE IF SameDisplayTime(next, toProcess) THEN a
                 ELSE Present_Process(
                          done(Profiler_AddEvent(a, p.m_PresentTrackIndex,
                                   [NewEvent EXCEPT !.pName = "Present",
                                                    !.Color = GetFrameColor(toProcess.FrameIndex),
                                                    !.Depth = stackSize % 256,
                                                    !.TicksBegin = toProcess.DisplayQPC,
                                                    !.TicksEnd = next.DisplayQPC],
                                   toProcess.FrameIndex)),
                          presentID + 1, stackSize + 1)

\* Profiler::Present
Profiler_Present(w, during) ==
    LET a == IF w.gProfiler.m_PresentTrackIndex = NoTrack
             THEN LET r == Profiler_RegisterTrack(w, "Present", "Present", 0, FALSE)
                  IN  [r EXCEPT !.gProfiler.m_PresentTrackIndex = RegisterTrack_Result(r)]
             ELSE w
        b == IF ~a.gProfiler.m_Paused
             THEN Present_PollLoop([a EXCEPT !.gProfiler = Present_Register(@, a.swapChain)], during)
             ELSE a
    IN  Present_Process(b, b.gProfiler.m_LastProcessedPresentID + 1, 0)

(***************************************************************************)
(* Timestamp-sorting GPU recorder (FooProfiler.h, GPUProfiler::Tick)       *)
(***************************************************************************)
\* capacity of QueueStack::Stack
MAX_DEPTH == 32
\* the queues of the recorder, as indices into m_Queues
FooQueues == {0, 1}
\* a SampleRegion whose timestamps were copied from the readback (lines 392-396)
NewSampleRegion(b, e, q) == [BeginTicks |-> b, EndTicks |-> e, QueueIndex |-> q, Depth |-> 0]
\* a SampleHistory without regions
NoSampleHistory == [Regions |-> <<>>, NumRegions |-> 0]

\* std::sort with the comparison a.BeginTicks < b.BeginTicks (line 401): the orders it
\* may leave the regions in, as permutations; the order of regions with the same
\* BeginTicks is unspecified
SortedOrders(regions) ==
    {perm \in [1..Len(regions) -> 1..Len(regions)] :
        /\ \A a, b \in 1..Len(regions) : a # b => perm[a] # perm[b]
        /\ \A k \in 1..(Len(regions) - 1) :
              regions[perm[k]].BeginTicks <= regions[perm[k + 1]].BeginTicks}

\* lines 416-428: parents that ended before the region begins are popped; ok is the
\* check(region.EndTicks <= pParent->EndTicks) on the parent that remains
RECURSIVE PopEndedParents(_, _, _)
PopEndedParents(regions, stack, region) ==
    IF stack = <<>> THEN [stack |-> stack, ok |-> TRUE]
    ELSE LET pParent == regions[stack[Len(stack)]]
         IN  IF region.BeginTicks >= pParent.EndTicks
             THEN PopEndedParents(regions, SubSeq(stack, 1, Len(stack) - 1), region)
             ELSE [stack |-> stack, ok |-> region.EndTicks <= pParent.EndTicks]

\* lines 410-436 from region i on, with the stacks of the queues; the result is the
\* history and the check that failed, if any
RECURSIVE ResolveDepths(_, _, _)
ResolveDepths(r, i, queueStacks) ==
    IF i > r.history.NumRegions THEN r
    ELSE LET region == r.history.Regions[i]
             popped == PopEndedParents(r.history.Regions, queueStacks[region.QueueIndex], region)
         IN  IF ~popped.ok
             THEN [r EXCEPT !.fault = "Tick: check(region.EndTicks <= pParent->EndTicks)"]
             ELSE IF ~(Len(popped.stack) + 1 < MAX_DEPTH)
             THEN [r EXCEPT !.history.Regions[i].Depth = Len(popped.stack),
                            !.fault = "Tick: check(stack.Depth < ARRAYSIZE(stack.Stack))"]
             ELSE ResolveDepths([r EXCEPT !.history.Regions[i].Depth = Len(popped.stack)], i + 1,
                                [queueStacks EXCEPT ![region.QueueIndex] = Append(popped.stack, i)])

\* GPUProfiler::Tick lines 398-436 on a frame whose timestamps were copied, with the
\* order perm left by the sort
SortAndResolveDepths(history, perm) ==
    LET sorted == [k \in 1..Len(history.Regions) |-> history.Regions[perm[k]]]
    IN  ResolveDepths([history |-> [Regions |-> sorted, NumRegions |-> Len(sorted)], fault |-> NoFault],
                      1, [q \in FooQueues |-> <<>>])

(***************************************************************************)
(* The program state as one record, and its commit to the variables        *)
(***************************************************************************)
World == [gProfiler |-> gProfiler, gGPUProfiler |-> gGPUProfiler, tls |-> tls, qpc |-> qpc,
          swapChain |-> swapChain, fault |-> fault]

Commit(w) ==
    /\ gProfiler' = w.gProfiler
    /\ gGPUProfiler' = w.gGPUProfiler
    /\ swapChain' = w.swapChain
    /\ conv' = conv
    /\ sampleHistory' = sampleHistory
    /\ shutdown' = shutdown
    /\ marker' = marker
    /\ tls' = w.tls
    /\ qpc' = w.qpc
    /\ fault' = w.fault

Running == fault = NoFault

InitProgram ==
    /\ gProfiler = [m_IsInitialized |-> FALSE, m_Paused |-> FALSE, m_QueuedPaused |-> FALSE,
                    m_FrameIndex |-> 0, m_HistorySize |-> 0, m_Tracks |-> <<>>,
                    m_pPresentSwapChain |-> "nullptr", m_PresentTrackIndex |-> NoTrack,
                    m_PresentQueue |-> [i \in 0..(PresentQueueSize - 1) |-> NewPresentEntry],
                    m_LastQueuedPresentID |-> 0, m_LastQueriedPresentID |-> 0,
                    m_LastProcessedValidPresentID |-> 0, m_LastProcessedPresentID |-> 0,
                    m_LastSyncRefreshCount |-> 0, m_MsToTicks |-> 0,
                    m_Allocator |-> NewProfilerAllocator]
    /\ gGPUProfiler = [m_IsInitialized |-> FALSE, m_IsPaused |-> FALSE, m_PauseQueued |-> FALSE,
                       m_QueryData |-> <<>>, m_EventIndex |-> 0, m_FrameLatency |-> 0,
                       m_FrameToReadback |-> 0, m_FrameIndex |-> 0, m_QueryHeaps |-> <<>>,
                       m_CPUTickFrequency |-> 0,
                       m_CommandListMap |-> [c \in CmdLists \cup DirectLists |-> <<>>],
                       m_QueueEventStack |-> <<>>, m_Queues |-> <<>>]
    /\ tls = [t \in Threads |-> [index |-> NoTrack, gAllocator |-> NewSubAllocator]]
    /\ qpc = [t \in Threads |-> 0]
    /\ swapChain = [presentCount |-> 0, refreshCount |-> 0, shown |-> 0,
                    stats |-> [PresentCount |-> 0, SyncQPCTime |-> 0, SyncRefreshCount |-> 0]]
    /\ shutdown = FALSE
    /\ fault = NoFault

\* no event under conversion
NoConv == [cpuCalibrationTicks |-> 0, gpuCalibrationTicks |-> 0, cpuFrequency |-> 1, gpuFrequency |-> 1,
           gpuBegin |-> 0, gpuEnd |-> 0, converted |-> FALSE, TicksBegin |-> 0, TicksEnd |-> 0]

Init == InitProgram /\ conv = NoConv /\ sampleHistory = NoSampleHistory /\ marker = NoMarker

(***************************************************************************)
(* Actions of the CPU recorder                                             *)
(***************************************************************************)
CurrentEvents(t) ==
    IF tls[t].index = NoTrack THEN <<>>
    ELSE GetFrameData(gProfiler.m_Tracks[tls[t].index + 1], gProfiler.m_FrameIndex)

Initialize ==
    /\ Running /\ ~gProfiler.m_IsInitialized
    /\ Commit(Profiler_Initialize(World, HistorySize))

RegisterThread(t) ==
    /\ Running /\ gProfiler.m_IsInitialized /\ tls[t].index = NoTrack
    /\ Commit(Profiler_RegisterCurrentThread(World, t, NoName, FALSE))

BeginEvent(t) ==
    /\ Running /\ gProfiler.m_IsInitialized
    /\ Len(CurrentEvents(t)) < (IF t = FrameThread THEN MaxFrameThreadEvents + 1 ELSE MaxThreadEvents)
    /\ Commit(Profiler_BeginEvent(World, t, "Event", 0, FALSE))

EndEvent(t) ==
    /\ Running /\ gProfiler.m_IsInitialized
    /\ \E ub \in {"crash", "stray"} : Commit(Profiler_EndEvent(World, t, ub))

SetPaused(paused) ==
    /\ Running /\ gProfiler.m_QueuedPaused # paused
    /\ Commit(Profiler_SetPaused(World, paused))

Tick ==
    /\ Running /\ gProfiler.m_IsInitialized
    /\ gProfiler.m_FrameIndex < MaxFrames
    /\ \E ub \in {"crash", "stray"} : Commit(Profiler_Tick(World, FrameThread, ub))

NextCPU ==
    \/ Initialize
    \/ \E t \in Threads : RegisterThread(t)
    \/ \E t \in Threads : BeginEvent(t)
    \/ \E t \in Threads : EndEvent(t)
    \/ \E paused \in BOOLEAN : SetPaused(paused)
    \/ Tick

SpecCPU == Init /\ [][NextCPU]_vars

\* Profiler::Shutdown
Profiler_Shutdown(w, ub) ==
    ProfilerAllocator_Release([w EXCEPT !.gProfiler.m_Tracks = <<>>], ub)

\* the application shuts the recorder down and does not call it again
Shutdown ==
    /\ Running /\ gProfiler.m_IsInitialized /\ ~shutdown
    /\ \E ub \in {"crash", "stray"} :
          LET w == Profiler_Shutdown(World, ub)
          IN  /\ gProfiler' = w.gProfiler /\ gGPUProfiler' = w.gGPUProfiler /\ tls' = w.tls
              /\ qpc' = w.qpc /\ swapChain' = w.swapChain /\ fault' = w.fault
    /\ shutdown' = TRUE
    /\ UNCHANGED <<conv, marker, sampleHistory>>

\* one thread records frames until the application shuts the recorder down
NextShutdown ==
    \/ ~shutdown /\ Initialize
    \/ ~shutdown /\ RegisterThread(FrameThread)
    \/ ~shutdown /\ BeginEvent(FrameThread)
    \/ ~shutdown /\ EndEvent(FrameThread)
    \/ ~shutdown /\ Tick
    \/ Shutdown

SpecShutdown == Init /\ [][NextShutdown]_vars

(***************************************************************************)
(* Actions of the GPU recorder                                             *)
(***************************************************************************)
GPUInitialize ==
    /\ Running /\ gProfiler.m_IsInitialized /\ ~gGPUProfiler.m_IsInitialized
    /\ gProfiler.m_FrameIndex = 0 /\ tls[FrameThread].index # NoTrack
    /\ Commit(GPUProfiler_Initialize(World, Queues, FrameLatency))

\* markers recorded and not yet submitted
RECURSIVE NumRecorded(_, _)
NumRecorded(g, cmds) ==
    IF cmds = {} THEN 0
    ELSE LET c == CHOOSE x \in cmds : TRUE
         IN  Len(g.m_CommandListMap[c]) + NumRecorded(g, cmds \ {c})

\* the recording is bounded: markers in flight, and each heap asked for at most one
\* event more than it holds
CanRecord(cmd) ==
    /\ gGPUProfiler.m_FrameIndex < MaxFrames - 1
    /\ NumRecorded(gGPUProfiler, DOMAIN gGPUProfiler.m_CommandListMap) < MaxMarkers
    /\ gGPUProfiler.m_QueryHeaps[GetHeapOfType(CmdListType(cmd))].m_QueryIndex < MaxNumQueries + 2

GPUBeginEvent(cmd) ==
    /\ Running /\ gGPUProfiler.m_IsInitialized
    /\ CanRecord(cmd)
    /\ gGPUProfiler.m_EventIndex <= EventCapacity(gGPUProfiler)
    /\ Commit(GPUProfiler_BeginEvent(World, cmd, CmdListType(cmd), "Event"))

GPUEndEvent(cmd) ==
    /\ Running /\ gGPUProfiler.m_IsInitialized
    /\ CanRecord(cmd)
    /\ Commit(GPUProfiler_EndEvent(World, cmd, CmdListType(cmd)))

\* a command list is executed on a queue of its type
ExecuteCommandLists(queueIndex, cmd) ==
    /\ Running /\ gGPUProfiler.m_IsInitialized
    /\ gGPUProfiler.m_Queues[queueIndex + 1].Type = CmdListType(cmd)
    /\ Commit(GPUProfiler_ExecuteCommandLists(World, queueIndex, <<cmd>>))

\* the GPU executes the oldest resolve submitted for heap h
GPUExecuteResolve(h) ==
    /\ Running /\ gGPUProfiler.m_IsInitialized
    /\ gGPUProfiler.m_QueryHeaps[h].Pending # <<>>
    /\ gGPUProfiler' = [gGPUProfiler EXCEPT !.m_QueryHeaps[h] = QueryHeap_Execute(@, gGPUProfiler.m_FrameLatency)]
    /\ UNCHANGED <<gProfiler, tls, qpc, swapChain, conv, marker, shutdown, sampleHistory, fault>>

Frame ==
    /\ Running /\ gProfiler.m_IsInitialized
    /\ gProfiler.m_FrameIndex < MaxFrames /\ gGPUProfiler.m_FrameIndex < MaxFrames
    /\ \E ub \in {"crash", "garbage"} : Commit(ProfileFrame(World, FrameThread, ub))

NextGPU ==
    \/ Initialize
    \/ GPUInitialize
    \/ RegisterThread(FrameThread)
    \/ \E cmd \in CmdLists : GPUBeginEvent(cmd)
    \/ \E cmd \in CmdLists : GPUEndEvent(cmd)
    \/ \E q \in 0..(Len(Queues) - 1), cmd \in CmdLists : ExecuteCommandLists(q, cmd)
    \/ \E h \in {0, 1} : GPUExecuteResolve(h)
    \/ Frame

SpecGPU == Init /\ [][NextGPU]_vars

(***************************************************************************)
(* Both recorders with their pause flags                                   *)
(***************************************************************************)
\* GPUProfiler::Initialize called in any frame of the CPU recorder
GPUInitializeAnyFrame ==
    /\ Running /\ gProfiler.m_IsInitialized /\ ~gGPUProfiler.m_IsInitialized
    /\ tls[FrameThread].index # NoTrack
    /\ Commit(GPUProfiler_Initialize(World, Queues, FrameLatency))

GPUSetPaused(paused) ==
    /\ Running /\ gGPUProfiler.m_PauseQueued # paused
    /\ Commit(GPUProfiler_SetPaused(World, paused))

NextPause ==
    \/ Initialize
    \/ RegisterThread(FrameThread)
    \/ GPUInitializeAnyFrame
    \/ \E paused \in BOOLEAN : SetPaused(paused)
    \/ \E paused \in BOOLEAN : GPUSetPaused(paused)
    \/ GPUBeginEvent("cmd1")
    \/ GPUEndEvent("cmd1")
    \/ ExecuteCommandLists(0, "cmd1")
    \/ \E h \in {0, 1} : GPUExecuteResolve(h)
    \/ Frame

SpecPause == Init /\ [][NextPause]_vars

(***************************************************************************)
(* Two threads recording on two command lists of one heap                  *)
(***************************************************************************)
NextRecord ==
    \/ Initialize
    \/ RegisterThread(FrameThread)
    \/ GPUInitialize
    \/ \E cmd \in DirectLists : GPUBeginEvent(cmd)
    \/ \E cmd \in DirectLists : GPUEndEvent(cmd)
    \/ \E cmd \in DirectLists : ExecuteCommandLists(0, cmd)
    \/ \E h \in {0, 1} : GPUExecuteResolve(h)
    \/ Frame

SpecRecord == Init /\ [][NextRecord]_vars

(***************************************************************************)
(* Actions of the Present tracker                                          *)
(***************************************************************************)
\* the refreshes that may happen before the GetFrameStatistics calls of one Present: at
\* most one, before the first or before the second call
VSyncsDuringPresent == {d \in {<<a, b>> : a \in 0..MaxPresents, b \in 0..MaxPresents} : d[1] = 0 \/ d[2] = 0}

\* the presents the refreshes of `during` show are possible, in order
RECURSIVE CanVSyncAll(_, _)
CanVSyncAll(sc, during) ==
    IF during = <<>> THEN TRUE
    ELSE IF Head(during) = 0 THEN CanVSyncAll(sc, Tail(during))
    ELSE CanVSync(sc, Head(during)) /\ CanVSyncAll(SwapChain_VSync(sc, Head(during)), Tail(during))

\* the application presents (IDXGISwapChain::Present) and calls Profiler::Present
Present ==
    /\ Running /\ gProfiler.m_IsInitialized
    /\ swapChain.presentCount < MaxPresents
    /\ \E during \in VSyncsDuringPresent :
          LET w == [World EXCEPT !.swapChain.presentCount = @ + 1]
          IN  /\ CanVSyncAll(w.swapChain, during)
              /\ Commit(Profiler_Present(w, during))

\* the display refreshes between two calls
VSync ==
    /\ Running
    /\ \E shown \in 0..MaxPresents :
          /\ CanVSync(swapChain, shown)
          /\ swapChain' = SwapChain_VSync(swapChain, shown)
    /\ UNCHANGED <<gProfiler, gGPUProfiler, tls, qpc, conv, marker, shutdown, sampleHistory, fault>>

NextPresent ==
    \/ Initialize
    \/ RegisterThread(FrameThread)
    \/ Tick
    \/ Present
    \/ VSync

SpecPresent == Init /\ [][NextPresent]_vars

\* the Present tracker of a recorder that the application pauses and resumes
NextPresentPause ==
    \/ Initialize
    \/ RegisterThread(FrameThread)
    \/ \E paused \in BOOLEAN : SetPaused(paused)
    \/ Tick
    \/ Present
    \/ VSync

SpecPresentPause == Init /\ [][NextPresentPause]_vars

(***************************************************************************)
(* Registration of tracks: threads, GPU queues and the Present track       *)
(***************************************************************************)
\* the names a thread passes to RegisterCurrentThread
ThreadNames == {NoName, "Render"}

\* PROFILE_REGISTER_THREAD(name) on thread t, registered already or not
RegisterThreadAs(t, name) ==
    /\ Running /\ gProfiler.m_IsInitialized
    /\ Commit(Profiler_RegisterCurrentThread(World, t, name, FALSE))

\* the first Profiler::Present of the application
FirstPresent == swapChain.presentCount = 0 /\ Present

NextTracks ==
    \/ Initialize
    \/ \E t \in Threads, name \in ThreadNames : RegisterThreadAs(t, name)
    \/ \E t \in Threads : BeginEvent(t)
    \/ \E t \in Threads : EndEvent(t)
    \/ GPUInitializeAnyFrame
    \/ FirstPresent

SpecTracks == Init /\ [][NextTracks]_vars

(***************************************************************************)
(* Conversion of GPU timestamps                                            *)
(***************************************************************************)
\* the calibrations and the GPU timestamps of one event
ConvInputs ==
    {[cpuCalibrationTicks |-> c, gpuCalibrationTicks |-> g, cpuFrequency |-> cf, gpuFrequency |-> gf,
      gpuBegin |-> b, gpuEnd |-> e, converted |-> FALSE, TicksBegin |-> 0, TicksEnd |-> 0] :
        c \in {0, 1}, g \in {0, 1}, cf \in {1, 3}, gf \in {1, 2},
        b \in 0..MaxGpuTicks, e \in 0..MaxGpuTicks}

InitConv ==
    /\ InitProgram /\ sampleHistory = NoSampleHistory /\ marker = NoMarker
    /\ conv \in {c \in ConvInputs : c.gpuBegin <= c.gpuEnd}

\* GPUProfiler::Tick lines 239-241 on the event
ConvertEvent ==
    /\ Running /\ ~conv.converted
    /\ IF conv.gpuBegin < conv.gpuCalibrationTicks \/ conv.gpuEnd < conv.gpuCalibrationTicks
       THEN /\ fault' = "ConvertToCPUTicks: gpuTicks >= queue.GPUCalibrationTicks"
            /\ conv' = conv
       ELSE /\ conv' = [conv EXCEPT
                          !.converted = TRUE,
                          !.TicksBegin = ConvertToCPUTicks(conv.cpuCalibrationTicks, conv.gpuCalibrationTicks,
                                                           conv.cpuFrequency, conv.gpuFrequency, conv.gpuBegin),
                          !.TicksEnd = ConvertToCPUTicks(conv.cpuCalibrationTicks, conv.gpuCalibrationTicks,
                                                         conv.cpuFrequency, conv.gpuFrequency, conv.gpuEnd)]
            /\ fault' = fault
    /\ UNCHANGED <<gProfiler, gGPUProfiler, tls, qpc, swapChain, marker, shutdown, sampleHistory>>

NextConv == ConvertEvent

SpecConv == InitConv /\ [][NextConv]_vars

(***************************************************************************)
(* Resolution of a frame by the timestamp-sorting GPU recorder             *)
(***************************************************************************)
\* region a encloses region b; the regions do not overlap
Encloses(a, b) == a.BeginTicks <= b.BeginTicks /\ b.EndTicks <= a.EndTicks
Disjoint(a, b) == a.EndTicks <= b.BeginTicks \/ b.EndTicks <= a.BeginTicks
\* the regions of a frame are properly nested on every queue
ProperlyNested(regions) ==
    \A i, j \in 1..Len(regions) :
        (i # j /\ regions[i].QueueIndex = regions[j].QueueIndex)
        => (Encloses(regions[i], regions[j]) \/ Encloses(regions[j], regions[i])
            \/ Disjoint(regions[i], regions[j]))
\* the regions one frame can hold after the readback, in the order of their indices
RegionInputs ==
    {r \in {NewSampleRegion(b, e, q) : b \in 0..MaxRegionTicks, e \in 0..MaxRegionTicks, q \in FooQueues} :
        r.BeginTicks <= r.EndTicks}
RecordedFrames ==
    {rs \in UNION {[1..n -> RegionInputs] : n \in 1..MaxRegions} : ProperlyNested(rs)}

InitSort ==
    /\ InitProgram /\ conv = NoConv /\ marker = NoMarker
    /\ sampleHistory \in {[Regions |-> rs, NumRegions |-> 0] : rs \in RecordedFrames}

\* GPUProfiler::Tick (FooProfiler.h) resolves the frame
FooTick ==
    /\ Running /\ sampleHistory.NumRegions = 0
    /\ \E perm \in SortedOrders(sampleHistory.Regions) :
          LET r == SortAndResolveDepths(sampleHistory, perm)
          IN  sampleHistory' = r.history /\ fault' = r.fault
    /\ UNCHANGED <<gProfiler, gGPUProfiler, tls, qpc, swapChain, conv, marker, shutdown>>

NextSort == FooTick

SpecSort == InitSort /\ [][NextSort]_vars

(***************************************************************************)
(* One marker of a frame at the widths of the source                       *)
(***************************************************************************)
\* the capacities GPUProfiler::Initialize leaves the heaps with: every heap a queue uses
\* is initialised with cMaxNumQueries, and there is a queue
HeapCapacities ==
    {c \in [{0, 1} -> {0, cMaxNumQueries}] : c[0] + c[1] > 0}

\* a frame in which m_EventIndex events were begun before the marker is recorded
InitMarker ==
    /\ InitProgram /\ conv = NoConv /\ sampleHistory = NoSampleHistory
    /\ marker \in {[NoMarker EXCEPT !.heapCapacity = c, !.m_EventIndex = i] :
                      c \in HeapCapacities, i \in 0..MaxEventIndex}

\* GPUProfiler::BeginEvent records the marker
MarkerBeginEvent ==
    /\ ~marker.recorded
    /\ marker' = Marker_BeginEvent(marker)
    /\ UNCHANGED <<gProfiler, gGPUProfiler, tls, qpc, swapChain, conv, shutdown, sampleHistory, fault>>

\* GPUProfiler::ExecuteCommandLists reads the marker
MarkerExecute ==
    /\ marker.recorded /\ marker.read = "none"
    /\ marker' = Marker_Execute(marker)
    /\ UNCHANGED <<gProfiler, gGPUProfiler, tls, qpc, swapChain, conv, shutdown, sampleHistory, fault>>

NextMarker == MarkerBeginEvent \/ MarkerExecute

SpecMarker == InitMarker /\ [][NextMarker]_vars

(***************************************************************************)
(* Properties of the CPU recorder                                          *)
(***************************************************************************)
\* the depth stack of thread t (empty while the thread has no track)
StackOf(p, l, t) == IF l[t].index = NoTrack THEN <<>> ELSE p.m_Tracks[l[t].index + 1].EventStack
\* the buffer of the current frame of thread t
BufferOf(p, l, t) ==
    IF l[t].index = NoTrack THEN <<>> ELSE GetFrameData(p.m_Tracks[l[t].index + 1], p.m_FrameIndex)
\* the frame in which a clock value was read
FrameOfTick(ticks) == (ticks - 1) \div TicksPerFrame
\* all events of all tracks stored for frame f
EventsOfFrame(p, f) ==
    UNION {{GetFrameData(p.m_Tracks[i], f)[k] : k \in 1..Len(GetFrameData(p.m_Tracks[i], f))}
           : i \in 1..Len(p.m_Tracks)}

\* C1: a step in which a thread's depth stack grows is a BeginEvent of that thread; the
\* event it appends to the current frame has Depth = the number of events the thread
\* had open before the call, and no later step changes the Depth of a stored event.
C1_DepthIsOpenCount ==
    [][/\ \A t \in Threads :
            Len(StackOf(gProfiler', tls', t)) = Len(StackOf(gProfiler, tls, t)) + 1
            => LET buf == BufferOf(gProfiler', tls', t)
               IN  /\ Len(buf) > 0
                   /\ buf[Len(buf)].Depth = Len(StackOf(gProfiler, tls, t))
                   /\ buf[Len(buf)].TicksEnd = 0
        /\ \A i \in 1..Len(gProfiler.m_Tracks) : \A s \in 0..(HistorySize - 1) :
            LET old == gProfiler.m_Tracks[i].Events[s]
                new == gProfiler'.m_Tracks[i].Events[s]
            IN  \A k \in 1..Min(Len(old), Len(new)) :
                    new[k].TicksBegin = old[k].TicksBegin => new[k].Depth = old[k].Depth
      ]_vars

\* C1 witness: a worker thread has begun an event inside another one it has open
C1_Witness ==
    /\ Running
    /\ Len(StackOf(gProfiler, tls, "worker")) = 2
    /\ LET buf == BufferOf(gProfiler, tls, "worker")
       IN  Len(buf) = 2 /\ buf[1].Depth = 0 /\ buf[2].Depth = 1

C10_RangeResolved ==
    Running => \A f \in GetFrameRange(gProfiler) : \A e \in EventsOfFrame(gProfiler, f) : IsValid(e)

\* thread t has an event open that it began in the current frame: the index on top of
\* its depth stack, or -1
OpenEventOf(p, l, t) ==
    LET stack == StackOf(p, l, t)
        buf == BufferOf(p, l, t)
    IN  IF stack = <<>> THEN -1
        ELSE LET k == stack[Len(stack)]
             IN  IF /\ k < Len(buf) /\ buf[k + 1].TicksEnd = 0
                    /\ FrameOfTick(buf[k + 1].TicksBegin) = p.m_FrameIndex
                 THEN k ELSE -1

\* C15: whenever a worker thread has an event open that it began in the current frame,
\* its EndEvent stamps the end time of that event and pops it from the thread's depth
\* stack, also after a pause has taken effect.
C15_OpenEventIsEnded ==
    \A t \in Threads \ {FrameThread} :
        (Running /\ gProfiler.m_IsInitialized /\ OpenEventOf(gProfiler, tls, t) >= 0) =>
            LET k == OpenEventOf(gProfiler, tls, t)
                r == Profiler_EndEvent(World, t, "crash")
            IN  /\ Len(StackOf(r.gProfiler, r.tls, t)) = Len(StackOf(gProfiler, tls, t)) - 1
                /\ BufferOf(r.gProfiler, r.tls, t)[k + 1].TicksEnd # 0


\* the events stored in the tracks that exist in p, as stored in q
SameEvents(p, q) == \A i \in 1..Len(p.m_Tracks) : q.m_Tracks[i].Events = p.m_Tracks[i].Events

\* C18: Profiler::EndEvent on a thread with no open event (recorder initialised, not
\* paused) stops on the assertion of EndEvent, and no stored event is changed by it.
C18_EndWithoutBeginAsserts ==
    [][/\ (fault = NoFault /\ fault' = "EndEvent: Called EndEvent more than BeginEvent")
          => SameEvents(gProfiler, gProfiler')
       /\ \A t \in Threads :
             (Running /\ gProfiler.m_IsInitialized /\ ~gProfiler.m_Paused
                /\ StackOf(gProfiler, tls, t) = <<>>)
             => \A ub \in {"crash", "stray"} :
                   LET r == Profiler_EndEvent(World, t, ub)
                   IN  /\ r.fault = "EndEvent: Called EndEvent more than BeginEvent"
                       /\ SameEvents(gProfiler, r.gProfiler)
      ]_vars

\* C18 witness: a thread that had recorded and ended an event called EndEvent once more
C18_Witness ==
    /\ fault = "EndEvent: Called EndEvent more than BeginEvent"
    /\ StackOf(gProfiler, tls, "worker") = <<>>
    /\ LET buf == BufferOf(gProfiler, tls, "worker")
       IN  Len(buf) = 1 /\ IsValid(buf[1])
    /\ Len(StackOf(gProfiler, tls, FrameThread)) = 1

\* C19: Profiler::Tick advances the frame only when no thread has a region open besides
\* the root "CPU Frame" event of the frame thread.
C19_TickAssertsOpenRegions ==
    [][(gProfiler'.m_FrameIndex # gProfiler.m_FrameIndex /\ fault' = NoFault)
       => \A t \in Threads :
             Len(StackOf(gProfiler, tls, t))
                 <= (IF t = FrameThread /\ gProfiler.m_FrameIndex # 0 THEN 1 ELSE 0)]_vars

\* C20: no BeginEvent stops on the assertion of FixedArray::Push: a Begin beyond the
\* capacity of the depth stack is dropped.
C20_PushBeyondCapacityDropped == fault # "FixedArray::Push: Length < N"


(***************************************************************************)
(* Properties of the GPU recorder                                          *)
(***************************************************************************)
\* the markers recorded on command lists and not yet submitted, and those on the queues'
\* stacks of active events
OpenEventIndices(g) ==
    UNION {{g.m_CommandListMap[c][k].EventIndex : k \in 1..Len(g.m_CommandListMap[c])} : c \in CmdLists}
    \cup UNION {{g.m_QueueEventStack[q][k].EventIndex : k \in 1..Len(g.m_QueueEventStack[q])} :
                  q \in 1..Len(g.m_QueueEventStack)}

\* the events of the current frame that got an event slot and whose Begin and End have
\* both been submitted
SubmittedEvents(g) ==
    {i \in 0..(Min(g.m_EventIndex, EventCapacity(g)) - 1) :
        /\ i < g.m_QueryData[QuerySlot(g, g.m_FrameIndex)].NumEvents
        /\ i \notin OpenEventIndices(g)}

\* the command lists of a queue are those of its type
QueueOfList(g, cmd) == CHOOSE q \in 0..(Len(g.m_Queues) - 1) : g.m_Queues[q + 1].Type = CmdListType(cmd)

\* C2: after ExecuteCommandLists on well-nested markers, every event begun on the
\* submitted lists has a QueryPair with both query indices set (and the index of the
\* queue it was submitted to).
C2_SubmittedEventsPaired ==
    (Running /\ gGPUProfiler.m_IsInitialized) =>
        \A i \in SubmittedEvents(gGPUProfiler) :
            LET queryData == gGPUProfiler.m_QueryData[QuerySlot(gGPUProfiler, gGPUProfiler.m_FrameIndex)]
            IN  /\ QueryPair_IsValid(queryData.Pairs[i + 1])
                /\ queryData.Events[i + 1].QueueIndex < Len(gGPUProfiler.m_Queues)

\* an End marker that finds no open Begin when the markers are replayed from a stack
\* of the given size
RECURSIVE EndsUnopened(_, _)
EndsUnopened(size, queries) ==
    IF queries = <<>> THEN FALSE
    ELSE IF Head(queries).EventIndex = EndEventFlag
         THEN size = 0 \/ EndsUnopened(size - 1, Tail(queries))
         ELSE EndsUnopened(size + 1, Tail(queries))

\* a submission of command list cmd returned: its markers were consumed
Submitted(cmd) ==
    /\ gGPUProfiler.m_IsInitialized
    /\ gGPUProfiler.m_CommandListMap[cmd] # <<>>
    /\ gGPUProfiler'.m_CommandListMap[cmd] = <<>>

\* GPUProfiler::Tick went past its checks: it read a frame back or advanced the frame
TickPassed ==
    /\ gGPUProfiler.m_IsInitialized
    /\ \/ gGPUProfiler'.m_FrameIndex # gGPUProfiler.m_FrameIndex
       \/ gGPUProfiler'.m_FrameToReadback # gGPUProfiler.m_FrameToReadback

\* C3 as stated: a submission that leaves a Begin open on the queue asserts at the
\* submission.
C3_OpenBeginAssertsAtSubmission ==
    [][\A cmd \in CmdLists :
          Submitted(cmd) =>
              Len(gGPUProfiler'.m_QueueEventStack[QueueOfList(gGPUProfiler, cmd) + 1]) = 0]_vars

\* C3: an End with no open Begin on the queue asserts at the submission; a Begin left
\* open is accepted by the submission and asserts in the next GPUProfiler::Tick, before
\* any frame is read back or the frame index advances.
C3_UnterminatedCaught ==
    [][/\ \A cmd \in CmdLists :
            Submitted(cmd) =>
                ~EndsUnopened(Len(gGPUProfiler.m_QueueEventStack[QueueOfList(gGPUProfiler, cmd) + 1]),
                              gGPUProfiler.m_CommandListMap[cmd])
       /\ TickPassed =>
             \A q \in 1..Len(gGPUProfiler.m_QueueEventStack) : gGPUProfiler.m_QueueEventStack[q] = <<>>]_vars

C3_Witness ==
    /\ fault = "Tick: EventStack for the CommandQueue should be empty"
    /\ \E q \in 1..Len(gGPUProfiler.m_QueueEventStack) : Len(gGPUProfiler.m_QueueEventStack[q]) > 0
    /\ \A c \in CmdLists : gGPUProfiler.m_CommandListMap[c] = <<>>

\* C4: the number of events GPUProfiler::Tick walks for a frame never exceeds the size
\* of the frame's event array.
C4_WalkWithinCapacity ==
    (Running /\ gGPUProfiler.m_IsInitialized) =>
        \A b \in DOMAIN gGPUProfiler.m_QueryData :
            gGPUProfiler.m_QueryData[b].NumEvents <= EventCapacity(gGPUProfiler)

\* C5: no assertion fires at readback when a frame asked a heap for more queries than
\* it holds (the frames hold no more events than their event arrays).
C5_OverflowDoesNotAssert ==
    ~(/\ fault = "Tick: queryRange.IsValid()"
      /\ \A b \in DOMAIN gGPUProfiler.m_QueryData :
            gGPUProfiler.m_QueryData[b].NumEvents <= EventCapacity(gGPUProfiler))

\* nothing was recorded in the current GPU frame
NothingRecorded(g) ==
    /\ g.m_EventIndex = 0
    /\ \A h \in {0, 1} : g.m_QueryHeaps[h].m_QueryIndex = 0
    /\ \A c \in CmdLists : g.m_CommandListMap[c] = <<>>

\* PROFILE_FRAME closed frame f of both recorders
FrameClosed(f) ==
    /\ gGPUProfiler.m_IsInitialized
    /\ gGPUProfiler.m_FrameIndex = f /\ gGPUProfiler'.m_FrameIndex = f + 1
    /\ gProfiler.m_FrameIndex = f /\ gProfiler'.m_FrameIndex = f + 1

\* the buffer of the frame thread's track for frame f, after the step
FrameThreadBuffer(f) == GetFrameData(gProfiler'.m_Tracks[tls'[FrameThread].index + 1], f)

ResolveExecuted(g, f) ==
    \A h \in {0, 1} :
        g.m_QueryHeaps[h].IsInitialized =>
            \A k \in 1..Len(g.m_QueryHeaps[h].Pending) : g.m_QueryHeaps[h].Pending[k].frame # f

\* the assertions of the readback loop of GPUProfiler::Tick
ReadbackFaults ==
    {"Tick: queryRange.IsValid()", "Tick: Events read out of bounds", "Tick: m_Queues read out of bounds",
     "ConvertToCPUTicks: gpuTicks >= queue.GPUCalibrationTicks"}

\* GPUProfiler::Tick read the query results of frame f in this step: it went through the
\* events of the frame, or stopped on an assertion among them
TickReadFrame(f) ==
    /\ gGPUProfiler.m_IsInitialized
    /\ gGPUProfiler.m_FrameToReadback <= f /\ f < gGPUProfiler.m_FrameIndex
    /\ gGPUProfiler.m_QueryData[QuerySlot(gGPUProfiler, f)].NumEvents > 0
    /\ \/ gGPUProfiler'.m_FrameToReadback > f
       \/ gGPUProfiler'.m_FrameToReadback = f /\ fault = NoFault /\ fault' \in ReadbackFaults

\* C11: GPUProfiler::Tick reads the query results of a frame N >= 0 only after the GPU
\* has executed, on every initialised heap, the resolve submitted for frame N (and so
\* signalled its fence).
C11_ReadbackAfterFence ==
    [][\A f \in 0..MaxFrames : TickReadFrame(f) => ResolveExecuted(gGPUProfiler, f)]_vars

\* GPUProfiler::Tick forwarded the events of frame f to Profiler::AddEvent in this step
TickForwardedFrame(f) ==
    /\ gGPUProfiler.m_IsInitialized
    /\ gGPUProfiler.m_FrameToReadback <= f /\ f < gGPUProfiler'.m_FrameToReadback
    /\ gGPUProfiler.m_QueryData[QuerySlot(gGPUProfiler, f)].NumEvents > 0

\* C12: when GPUProfiler::Tick forwards the events of GPU frame F, the CPU frame index
\* minus F is below the history size: the ring slot of F has not been reused.
C12_ForwardedInsideHistory ==
    [][\A f \in 0..MaxFrames :
          TickForwardedFrame(f) => gProfiler'.m_FrameIndex - f < gProfiler'.m_HistorySize]_vars


(***************************************************************************)
(* Properties of the frame indices and of the pause flags                  *)
(***************************************************************************)
\* C13: after every PROFILE_FRAME on two initialised recorders, Profiler::m_FrameIndex
\* and GPUProfiler::m_FrameIndex are the same frame.
C13_FrameIndicesInLockstep ==
    [][(/\ gProfiler.m_IsInitialized /\ gGPUProfiler.m_IsInitialized
        /\ fault' = NoFault
        /\ \/ gProfiler'.m_FrameIndex # gProfiler.m_FrameIndex
           \/ gGPUProfiler'.m_FrameIndex # gGPUProfiler.m_FrameIndex)
       => gProfiler'.m_FrameIndex = gGPUProfiler'.m_FrameIndex]_vars

\* the two recorders with their queued pause flags set to q
WithQueued(w, q) == [w EXCEPT !.gProfiler.m_QueuedPaused = q, !.gGPUProfiler.m_PauseQueued = q]

IndicesArePositions(p) == \A i \in 1..Len(p.m_Tracks) : p.m_Tracks[i].Index = i - 1

\* C16: track registration is append-only with stable indices: m_Tracks[i].Index = i in
\* every state; a step never removes a track nor changes the Index, Type or ID of one;
\* and the index a registration hands out (to a thread, a GPU queue or the Present
\* tracker) is the number of tracks registered before it, the position of the new track.
C16_TrackIndicesStable ==
    [][/\ IndicesArePositions(gProfiler) /\ IndicesArePositions(gProfiler')
       /\ Len(gProfiler'.m_Tracks) >= Len(gProfiler.m_Tracks)
       /\ \A i \in 1..Len(gProfiler.m_Tracks) :
             /\ gProfiler'.m_Tracks[i].Index = gProfiler.m_Tracks[i].Index
             /\ gProfiler'.m_Tracks[i].Type = gProfiler.m_Tracks[i].Type
             /\ gProfiler'.m_Tracks[i].ID = gProfiler.m_Tracks[i].ID
       /\ \A t \in Threads :
             tls'[t].index # tls[t].index
             => /\ tls'[t].index = Len(gProfiler.m_Tracks)
                /\ Len(gProfiler'.m_Tracks) = Len(gProfiler.m_Tracks) + 1
                /\ gProfiler'.m_Tracks[tls'[t].index + 1].ID = t
       /\ gProfiler'.m_PresentTrackIndex # gProfiler.m_PresentTrackIndex
          => /\ gProfiler'.m_PresentTrackIndex = Len(gProfiler.m_Tracks)
             /\ gProfiler'.m_Tracks[gProfiler'.m_PresentTrackIndex + 1].Type = "Present"
       /\ \A q \in 1..Len(gGPUProfiler'.m_Queues) :
             LET queue == gGPUProfiler'.m_Queues[q]
             IN  /\ queue.TrackIndex < Len(gProfiler'.m_Tracks)
                 /\ gProfiler'.m_Tracks[queue.TrackIndex + 1].Type = "GPU"
                 /\ gProfiler'.m_Tracks[queue.TrackIndex + 1].ID = queue.Index
                 /\ q > Len(gGPUProfiler.m_Queues)
                    => queue.TrackIndex = Len(gProfiler.m_Tracks) + (q - 1)
      ]_vars

\* C16 witness: the tracks of two threads, two GPU queues and the Present tracker are
\* registered, the worker's after the queues'
C16_Witness ==
    /\ Running /\ Len(gProfiler.m_Tracks) = 5
    /\ gProfiler.m_PresentTrackIndex # NoTrack
    /\ Len(gGPUProfiler.m_Queues) = 2
    /\ tls["worker"].index > gGPUProfiler.m_Queues[2].TrackIndex
    /\ IndicesArePositions(gProfiler)

\* the tracks registered for thread t
TracksOf(p, t) == {i \in 1..Len(p.m_Tracks) : p.m_Tracks[i].Type = "CPU" /\ p.m_Tracks[i].ID = t}

\* C17: a thread owns at most one track, the one its thread-local index names; once a
\* thread has a track no step gives it another index or another track, and a
\* RegisterCurrentThread call on it returns the same index, adds no track and changes
\* the name of the thread's track only.
C17_OneTrackPerThread ==
    [][\A t \in Threads :
          /\ Cardinality(TracksOf(gProfiler', t)) <= 1
          /\ tls'[t].index # NoTrack => TracksOf(gProfiler', t) = {tls'[t].index + 1}
          /\ tls'[t].index = NoTrack => TracksOf(gProfiler', t) = {}
          /\ tls[t].index # NoTrack => tls'[t].index = tls[t].index
          /\ (Running /\ tls[t].index # NoTrack)
             => \A name \in ThreadNames :
                   LET r == Profiler_RegisterCurrentThread(World, t, name, FALSE)
                   IN  /\ r.tls = tls
                       /\ Len(r.gProfiler.m_Tracks) = Len(gProfiler.m_Tracks)
                       /\ r = [World EXCEPT !.gProfiler.m_Tracks[tls[t].index + 1].Name =
                                               IF name = NoName THEN ThreadDescription(t) ELSE name]
      ]_vars

\* C17 witness: the worker thread holds one track, named by a RegisterCurrentThread
\* call, in which it has recorded an event; the frame thread is registered as well
C17_Witness ==
    /\ Running /\ tls["worker"].index # NoTrack /\ tls[FrameThread].index # NoTrack
    /\ gProfiler.m_Tracks[tls["worker"].index + 1].Name = "Render"
    /\ Len(BufferOf(gProfiler, tls, "worker")) > 0
    /\ Cardinality(TracksOf(gProfiler, "worker")) = 1


(***************************************************************************)
(* Properties of the conversion and of the Present tracker                 *)
(***************************************************************************)
\* C6: for GPU timestamps begin <= end, both at or after the calibration, the converted
\* ticks satisfy TicksEnd >= TicksBegin.
C6_ConversionMonotone == conv.converted => conv.TicksEnd >= conv.TicksBegin

\* the statistics have reported P1 and P3 displayed at the first and second refresh,
\* P4 at the third if at all, and P2 never
ScenarioReported(p) ==
    /\ HasPresentEntry(p, 1) /\ GetPresentEntry(p, 1).DisplayQPC = VSyncTime(1)
    /\ HasPresentEntry(p, 2) /\ GetPresentEntry(p, 2).DisplayQPC = sQPCDroppedFrame
    /\ HasPresentEntry(p, 3) /\ GetPresentEntry(p, 3).DisplayQPC = VSyncTime(2)
    /\ HasPresentEntry(p, 4) => GetPresentEntry(p, 4).DisplayQPC \in {sQPCDroppedFrame, VSyncTime(3)}

\* what the tracker is to emit for present id of the scenario: name, begin, end (0: any)
\* and the ring slot and colour of the present's frame
ScenarioEvent(p, id) ==
    LET frame == GetPresentEntry(p, id).FrameIndex
    IN  [pName |-> IF id = 2 THEN "Discarded" ELSE "Present",
         TicksBegin |-> IF id = 1 THEN VSyncTime(1) ELSE VSyncTime(2),
         TicksEnd |-> IF id = 1 THEN VSyncTime(2) ELSE IF id = 2 THEN 0 ELSE VSyncTime(3),
         Slot |-> RingSlot(frame), Color |-> GetFrameColor(frame)]

\* the events of the Present track in ring slot b
PresentBuffer(p, b) ==
    IF p.m_PresentTrackIndex = NoTrack THEN <<>>
    ELSE p.m_Tracks[p.m_PresentTrackIndex + 1].Events[b]

\* the events a step appended to the Present track
EmittedEvents ==
    UNION {{LET e == PresentBuffer(gProfiler', b)[k]
            IN  [pName |-> e.pName, TicksBegin |-> e.TicksBegin,
                 TicksEnd |-> IF e.pName = "Discarded" THEN 0 ELSE e.TicksEnd,
                 Slot |-> b, Color |-> e.Color] :
              k \in (Len(PresentBuffer(gProfiler, b)) + 1)..Len(PresentBuffer(gProfiler', b))} :
           b \in 0..(HistorySize - 1)}

\* C8: in the scenario P1 shown at 100, P2 never, P3 at 130, P4 at 160, the tracker
\* emits exactly Present [100,130) for P1, Discarded at 130 for P2 and Present
\* [130,160) for P3, each in the buffer of its present's frame.
C8_ScenarioSpans ==
    [][(/\ gProfiler'.m_LastProcessedPresentID > gProfiler.m_LastProcessedPresentID
        /\ gProfiler'.m_LastProcessedPresentID <= 3
        /\ ScenarioReported(gProfiler'))
       => EmittedEvents = {ScenarioEvent(gProfiler', id) :
                             id \in (gProfiler.m_LastProcessedPresentID + 1)..gProfiler'.m_LastProcessedPresentID}]_vars


(***************************************************************************)
(* Properties of the history exposed to consumers                          *)
(***************************************************************************)
\* the buffer of frame f in track i (1-based position in m_Tracks) of recorder p; a
\* track not yet registered has no events
TrackBuffer(p, i, f) == IF i <= Len(p.m_Tracks) THEN GetFrameData(p.m_Tracks[i], f) ELSE <<>>

\* C21: once frame F is inside GetFrameRange(), no operation (BeginEvent, EndEvent,
\* Tick, Present) appends to or modifies any track's buffer of F for as long as F stays
\* inside the range.
C21_HistoryReadOnly ==
    [][\A f \in GetFrameRange(gProfiler) \cap GetFrameRange(gProfiler') :
          \A i \in 1..Len(gProfiler'.m_Tracks) :
              TrackBuffer(gProfiler', i, f) = TrackBuffer(gProfiler, i, f)]_vars

(***************************************************************************)
(* Properties of the query heaps' frames                                   *)
(***************************************************************************)
\* C22: whenever GPU frame F >= frameLatency is being recorded (QueryHeap::Reset(F) has
\* returned), the GPU has executed the resolve of frame F - frameLatency on every
\* initialised heap, so that frame's readback region and command allocator are free.
C22_ResetWaitsForResolve ==
    (Running /\ gGPUProfiler.m_IsInitialized /\ gGPUProfiler.m_FrameIndex >= gGPUProfiler.m_FrameLatency)
        => ResolveExecuted(gGPUProfiler, gGPUProfiler.m_FrameIndex - gGPUProfiler.m_FrameLatency)


\* C29: in every reachable state m_FrameToReadback <= m_FrameIndex and
\* m_FrameIndex - m_FrameToReadback < frameLatency: the QueryData slot of the frame being
\* recorded never still holds a frame that has not been read back.
C29_ReadbackWithinLatency ==
    (Running /\ gGPUProfiler.m_IsInitialized) =>
        /\ gGPUProfiler.m_FrameToReadback <= gGPUProfiler.m_FrameIndex
        /\ gGPUProfiler.m_FrameIndex - gGPUProfiler.m_FrameToReadback < gGPUProfiler.m_FrameLatency


(***************************************************************************)
(* Properties of the forwarding of GPU events                              *)
(***************************************************************************)
\* every event of GPU frame f was begun, ended and submitted: the frame holds no more
\* events than its array and each has both of its query indices
FrameSubmitted(g, f) ==
    LET queryData == g.m_QueryData[QuerySlot(g, f)]
    IN  /\ queryData.NumEvents <= Len(queryData.Events)
        /\ \A i \in 1..queryData.NumEvents :
              /\ QueryPair_IsValid(queryData.Pairs[i])
              /\ queryData.Events[i].QueueIndex < Len(g.m_Queues)

\* the number of events of GPU frame f that were submitted to queue q (0-based)
NumSubmittedTo(g, f, q) ==
    LET queryData == g.m_QueryData[QuerySlot(g, f)]
    IN  Cardinality({i \in 1..Min(queryData.NumEvents, Len(queryData.Events)) :
                        queryData.Events[i].QueueIndex = q})

\* the events the track of queue q holds for frame f before the readback of this step:
\* none when Profiler::Tick gave the ring slot to the new frame in the same PROFILE_FRAME
BufferBeforeReadback(q, f) ==
    LET trackIndex == gGPUProfiler.m_Queues[q + 1].TrackIndex
    IN  IF /\ gProfiler'.m_FrameIndex # gProfiler.m_FrameIndex
           /\ RingSlot(gProfiler'.m_FrameIndex) = RingSlot(f)
        THEN <<>>
        ELSE GetFrameData(gProfiler.m_Tracks[trackIndex + 1], f)

\* C28: every GPU event begun, ended and submitted in frame F is forwarded to
\* Profiler::AddEvent exactly once, with the track of its queue and frame index F: the
\* GPUProfiler::Tick that reads frame F stops on no assertion, and the track of each
\* queue gains, in its buffer of F, as many events as were submitted to the queue.
C28_SubmittedEventsForwarded ==
    [][\A f \in 0..MaxFrames :
          (TickReadFrame(f) /\ FrameSubmitted(gGPUProfiler, f)) =>
              /\ fault' = NoFault
              /\ \A q \in 0..(Len(gGPUProfiler.m_Queues) - 1) :
                    Len(GetFrameData(gProfiler'.m_Tracks[gGPUProfiler.m_Queues[q + 1].TrackIndex + 1], f))
                        = Len(BufferBeforeReadback(q, f)) + NumSubmittedTo(gGPUProfiler, f, q)]_vars


(***************************************************************************)
(* Properties of the scratch pages                                         *)
(***************************************************************************)
\* the pages that hold the name of an event of a frame inside GetFrameRange()
HistoryNamePages(p) ==
    UNION {UNION {{TrackBuffer(p, i, f)[k].pNamePage : k \in 1..Len(TrackBuffer(p, i, f))} :
                    i \in 1..Len(p.m_Tracks)} : f \in GetFrameRange(p)}

\* the pages that hold the name of a GPU event awaiting readback: the events submitted
\* in a frame not yet read back, and those recorded in the current frame
AwaitingNamePages(g) ==
    UNION {{g.m_QueryData[b].Events[i].pNamePage :
              i \in 1..Min(Len(g.m_QueryData[b].Events),
                           IF b = QuerySlot(g, g.m_FrameIndex)
                           THEN Max(g.m_QueryData[b].NumEvents, g.m_EventIndex)
                           ELSE g.m_QueryData[b].NumEvents)} :
           b \in DOMAIN g.m_QueryData}

\* C24: no page that stores the name of an event still reachable by consumers (an event
\* of a frame inside GetFrameRange(), or a GPU event awaiting readback) is on the free
\* list of the ProfilerAllocator.
C24_ReachableNamesNotFree ==
    (Running /\ gProfiler.m_IsInitialized) =>
        \A page \in HistoryNamePages(gProfiler)
                    \cup (IF gGPUProfiler.m_IsInitialized THEN AwaitingNamePages(gGPUProfiler) ELSE {}) :
            page # NoPage =>
                \A k \in 1..Len(gProfiler.m_Allocator.FreePages) : gProfiler.m_Allocator.FreePages[k] # page

(***************************************************************************)
(* Properties of the submission of command lists                           *)
(***************************************************************************)
\* a queue that was not passed to GPUProfiler::Initialize: m_QueueIndexMap.find fails
UnregisteredQueue == -1

\* C23: after ExecuteCommandLists(queue, lists) returns, for any queue passed by the
\* caller, every command list of `lists` has an empty list of recorded markers.
C23_SubmissionConsumesMarkers ==
    (Running /\ gGPUProfiler.m_IsInitialized) =>
        \A q \in {UnregisteredQueue} \cup 0..(Len(gGPUProfiler.m_Queues) - 1), cmd \in CmdLists :
            LET r == GPUProfiler_ExecuteCommandLists(World, q, <<cmd>>)
            IN  r.fault = NoFault => r.gGPUProfiler.m_CommandListMap[cmd] = <<>>

(***************************************************************************)
(* Properties of concurrent recording                                      *)
(***************************************************************************)
\* the markers of the current frame, with the place that holds each: a command list
\* (recorded, not submitted) or the stack of active events of a queue
FrameMarkers(g) ==
    UNION {{[kind |-> "list", name |-> c, pos |-> k,
             heap |-> GetHeapOfType(CmdListType(c)), query |-> g.m_CommandListMap[c][k]] :
              k \in 1..Len(g.m_CommandListMap[c])} : c \in DOMAIN g.m_CommandListMap}
    \cup UNION {{[kind |-> "stack", name |-> g.m_Queues[q].Type, pos |-> k,
                  heap |-> g.m_Queues[q].QueryHeapIndex, query |-> g.m_QueueEventStack[q][k]] :
                   k \in 1..Len(g.m_QueueEventStack[q])} : q \in 1..Len(g.m_QueueEventStack)}

\* the query slots the calls of the current frame obtained, per heap: those of the
\* markers and those already stored in the QueryPair of an event
FrameQuerySlots(g) ==
    LET queryData == g.m_QueryData[QuerySlot(g, g.m_FrameIndex)]
        events == 1..Min(g.m_EventIndex, Len(queryData.Events))
        heapOf(i) == g.m_Queues[queryData.Events[i].QueueIndex + 1].QueryHeapIndex
    IN  {[kind |-> m.kind, name |-> m.name, pos |-> m.pos, heap |-> m.heap, index |-> m.query.QueryIndex] :
            m \in FrameMarkers(g)}
        \cup {[kind |-> "begin", name |-> "", pos |-> i, heap |-> heapOf(i),
               index |-> queryData.Pairs[i].QueryIndexBegin] : i \in events}
        \cup {[kind |-> "end", name |-> "", pos |-> i, heap |-> heapOf(i),
               index |-> queryData.Pairs[i].QueryIndexEnd] : i \in events}

\* C30: the BeginEvent / EndEvent calls made on different command lists within one
\* frame obtain pairwise distinct event indices, and pairwise distinct query slots of
\* each heap (a call past the capacity obtains no slot, the invalid index).
C30_IndicesDistinct ==
    (Running /\ gGPUProfiler.m_IsInitialized) =>
        /\ \A a, b \in FrameMarkers(gGPUProfiler) :
              (a # b /\ a.query.EventIndex \notin {EndEventFlag, InvalidEventFlag})
                  => a.query.EventIndex # b.query.EventIndex
        /\ \A a, b \in FrameQuerySlots(gGPUProfiler) :
              (a # b /\ a.heap = b.heap /\ a.index # InvalidQueryIndex) => a.index # b.index
        /\ \A a \in FrameMarkers(gGPUProfiler) :
              a.query.EventIndex \notin {EndEventFlag, InvalidEventFlag}
                  => a.query.EventIndex < gGPUProfiler.m_EventIndex

\* two threads have each begun an event, on two command lists that record into the
\* same heap
C30_Witness ==
    /\ Running /\ gGPUProfiler.m_IsInitialized
    /\ \A c \in DirectLists :
          /\ Len(gGPUProfiler.m_CommandListMap[c]) = 1
          /\ gGPUProfiler.m_CommandListMap[c][1].EventIndex \notin {EndEventFlag, InvalidEventFlag}
          /\ gGPUProfiler.m_CommandListMap[c][1].QueryIndex # InvalidQueryIndex

(***************************************************************************)
(* Properties of the events of the Present track                           *)
(***************************************************************************)
\* the presents for which this step emitted an event: the entries the process loop
\* went past that are in the queue and are not marked as missed
PresentsEmitted ==
    {id \in (gProfiler.m_LastProcessedPresentID + 1)..gProfiler'.m_LastProcessedPresentID :
        /\ HasPresentEntry(gProfiler', id)
        /\ GetPresentEntry(gProfiler', id).DisplayQPC # sQPCMissedFrame}

\* an estimated display time: neither a sentinel nor the time of a refresh
IsEstimate(displayQPC) ==
    /\ displayQPC \notin {sQPCDroppedFrame, sQPCMissedFrame}
    /\ \A r \in 1..MaxRefreshes : displayQPC # VSyncTime(r)

\* C26: an entry gets an estimated display time only when the display times of its two
\* neighbours, from which the estimate is computed, are valid (no sentinel), and the
\* estimate lies between them.
C26_EstimateBetweenValid ==
    \A id \in 1..MaxPresents :
        (HasPresentEntry(gProfiler, id) /\ IsEstimate(GetPresentEntry(gProfiler, id).DisplayQPC)) =>
            /\ HasPresentEntry(gProfiler, id - 1) /\ HasPresentEntry(gProfiler, id + 1)
            /\ GetPresentEntry(gProfiler, id - 1).DisplayQPC \notin {sQPCDroppedFrame, sQPCMissedFrame}
            /\ GetPresentEntry(gProfiler, id + 1).DisplayQPC \notin {sQPCDroppedFrame, sQPCMissedFrame}
            /\ GetPresentEntry(gProfiler, id - 1).DisplayQPC <= GetPresentEntry(gProfiler, id).DisplayQPC
            /\ GetPresentEntry(gProfiler, id).DisplayQPC <= GetPresentEntry(gProfiler, id + 1).DisplayQPC

\* C27: every Present / Discarded event is appended to the Present track's buffer of
\* the entry's FrameIndex while that ring slot still belongs to the frame: the CPU frame
\* index minus FrameIndex is below the history size.
C27_PresentEventInsideHistory ==
    [][\A id \in PresentsEmitted :
          gProfiler'.m_FrameIndex - GetPresentEntry(gProfiler', id).FrameIndex < gProfiler'.m_HistorySize]_vars

\* the number of events the Present track holds, over the ring slots b..historySize-1
RECURSIVE NumPresentEvents(_, _)
NumPresentEvents(p, b) ==
    IF b >= p.m_HistorySize THEN 0 ELSE Len(PresentBuffer(p, b)) + NumPresentEvents(p, b + 1)

\* the first entry the process loop has not gone past waits for a refresh: it was
\* displayed, and at the time of the last valid entry the statistics have reported
WaitsForRefresh(p) ==
    LET id == p.m_LastProcessedPresentID + 1
    IN  /\ ValidPresents(p) # {}
        /\ HasPresentEntry(p, id)
        /\ GetPresentEntry(p, id).DisplayQPC \notin {sQPCDroppedFrame, sQPCMissedFrame}
        /\ GetPresentEntry(p, id).DisplayQPC = GetPresentEntry(p, NextValidPresent(p)).DisplayQPC

FrameIndexBits == 16
\* the number of values of a frame index
UInt32Modulus == 2^FrameIndexBits
\* Profiler::GetFrameRange, its two fields as the uint32 arithmetic computes them
GetFrameRange_Begin(p) == (p.m_FrameIndex - Min(p.m_FrameIndex, p.m_HistorySize) + 1) % UInt32Modulus
GetFrameRange_End(p) == p.m_FrameIndex
\* URange::GetLength: End - Begin in uint32
URange_GetLength(begin, end) == (end - begin) % UInt32Modulus

\* C31: in every state of an initialized recorder, also before the first Tick (frame
\* index 0), GetFrameRange() has Begin <= End and a length of at most historySize - 1
\* (GetLength does not wrap around), and no frame of the range shares a ring slot with
\* the frame being recorded.
C31_FrameRangeWellFormed ==
    (Running /\ gProfiler.m_IsInitialized) =>
        LET begin == GetFrameRange_Begin(gProfiler)
            end == GetFrameRange_End(gProfiler)
        IN  /\ begin <= end
            /\ URange_GetLength(begin, end) <= gProfiler.m_HistorySize - 1
            /\ \A f \in begin..(end - 1) : RingSlot(f) # RingSlot(gProfiler.m_FrameIndex)
(***************************************************************************)
(* Properties of Profiler::Tick                                            *)
(***************************************************************************)
\* C32: Profiler::Tick returns when the calling thread is not registered yet: it
\* registers the thread and opens the root event, without blocking on the
\* m_ThreadDataLock it holds while it calls BeginEvent.
C32_TickRegistersCaller ==
    (Running /\ gProfiler.m_IsInitialized /\ tls[FrameThread].index = NoTrack) =>
        \A ub \in {"crash", "stray"} :
            LET w == Profiler_Tick(World, FrameThread, ub)
            IN  /\ w.fault = NoFault
                /\ ~w.gProfiler.m_Paused =>
                       /\ w.tls[FrameThread].index # NoTrack
                       /\ Len(w.gProfiler.m_Tracks[w.tls[FrameThread].index + 1].EventStack) = 1
\* C33: for any interleaving of a worker thread's BeginEvent/EndEvent with Tick on the
\* frame thread, a step that pops the worker's depth stack (its EndEvent) stamps the
\* event created by the matching BeginEvent: the popped index names, in the buffer the
\* end time is written to, an event that is open and was begun in that buffer's frame,
\* and the step gives it its end time.
C33_EndStampsItsEvent ==
    [][\A t \in Threads \ {FrameThread} :
          Len(StackOf(gProfiler', tls', t)) = Len(StackOf(gProfiler, tls, t)) - 1
          => LET stack == StackOf(gProfiler, tls, t)
                 k == stack[Len(stack)]
                 old == BufferOf(gProfiler, tls, t)
                 new == BufferOf(gProfiler', tls', t)
             IN  /\ fault' = NoFault
                 /\ k < Len(old)
                 /\ old[k + 1].TicksEnd = 0
                 /\ FrameOfTick(old[k + 1].TicksBegin) = gProfiler.m_FrameIndex
                 /\ new[k + 1].TicksEnd # 0
      ]_vars
\* C34: a Tick that advances the frame index to N >= 1 leaves, as the first event of the
\* ticking thread's buffer of frame N, an open root event named "CPU Frame" at Depth 0;
\* and it has stamped the end of the root event of the frame it finished (when that
\* frame is >= 1), whose [TicksBegin, TicksEnd] encloses every other event of the
\* thread in that frame.
C34_RootEventSpansFrame ==
    [][(gProfiler'.m_FrameIndex = gProfiler.m_FrameIndex + 1 /\ fault' = NoFault)
       => /\ LET buf == BufferOf(gProfiler', tls', FrameThread)
             IN  /\ Len(buf) >= 1
                 /\ buf[1].pName = "CPU Frame"
                 /\ buf[1].Depth = 0
                 /\ buf[1].TicksEnd = 0
          /\ gProfiler.m_FrameIndex >= 1 =>
                 LET fin == GetFrameData(gProfiler'.m_Tracks[tls'[FrameThread].index + 1],
                                         gProfiler.m_FrameIndex)
                 IN  /\ Len(fin) >= 1
                     /\ IsValid(fin[1])
                     /\ \A k \in 2..Len(fin) :
                            /\ fin[1].TicksBegin <= fin[k].TicksBegin
                            /\ fin[k].TicksEnd <= fin[1].TicksEnd
      ]_vars
(***************************************************************************)
(* Properties of a paused recorder                                         *)
(***************************************************************************)
\* world w has the CPU recorder's frame index, depth stacks and events of the current
\* frame as they are now
ProfilerFrozen(w) ==
    /\ w.gProfiler.m_FrameIndex = gProfiler.m_FrameIndex
    /\ Len(w.gProfiler.m_Tracks) = Len(gProfiler.m_Tracks)
    /\ \A i \in 1..Len(gProfiler.m_Tracks) :
          /\ w.gProfiler.m_Tracks[i].EventStack = gProfiler.m_Tracks[i].EventStack
          /\ GetFrameData(w.gProfiler.m_Tracks[i], gProfiler.m_FrameIndex)
                 = GetFrameData(gProfiler.m_Tracks[i], gProfiler.m_FrameIndex)
\* the same for the GPU recorder: frame index, queue stacks, event index and the
\* QueryData of the current frame
GPUProfilerFrozen(w) ==
    /\ w.gGPUProfiler.m_FrameIndex = gGPUProfiler.m_FrameIndex
    /\ w.gGPUProfiler.m_QueueEventStack = gGPUProfiler.m_QueueEventStack
    /\ w.gGPUProfiler.m_EventIndex = gGPUProfiler.m_EventIndex
    /\ w.gGPUProfiler.m_QueryData[QuerySlot(gGPUProfiler, gGPUProfiler.m_FrameIndex)]
           = gGPUProfiler.m_QueryData[QuerySlot(gGPUProfiler, gGPUProfiler.m_FrameIndex)]

\* C35, the part on the time of the pause: while a recorder is paused, BeginEvent,
\* EndEvent, ExecuteCommandLists and a Tick with the pause still queued leave its frame
\* index, depth stacks, event index and the events of the current frame unchanged.
PausedHandlersChangeNothing ==
    /\ (Running /\ gProfiler.m_IsInitialized /\ gProfiler.m_Paused) =>
          /\ \A t \in Threads : tls[t].index # NoTrack =>
                /\ ProfilerFrozen(Profiler_BeginEvent(World, t, "Event", 0, FALSE))
                /\ ProfilerFrozen(Profiler_EndEvent(World, t, "crash"))
          /\ gProfiler.m_QueuedPaused => ProfilerFrozen(Profiler_Tick(World, FrameThread, "crash"))
    /\ (Running /\ gGPUProfiler.m_IsInitialized /\ gGPUProfiler.m_IsPaused) =>
          /\ \A cmd \in CmdLists :
                /\ GPUProfilerFrozen(GPUProfiler_BeginEvent(World, cmd, CmdListType(cmd), "Event"))
                /\ GPUProfilerFrozen(GPUProfiler_EndEvent(World, cmd, CmdListType(cmd)))
                /\ \A q \in 0..(Len(gGPUProfiler.m_Queues) - 1) :
                      GPUProfilerFrozen(GPUProfiler_ExecuteCommandLists(World, q, <<cmd>>))
          /\ gGPUProfiler.m_PauseQueued => GPUProfilerFrozen(GPUProfiler_Tick(World, "crash"))

\* C35, the part on the resume: the first Tick after SetPaused(false) closes the root
\* event of the paused frame and advances the frame index by exactly one.
ResumeAdvancesOneFrame ==
    /\ (Running /\ gProfiler.m_IsInitialized /\ gProfiler.m_Paused /\ ~gProfiler.m_QueuedPaused
        /\ tls[FrameThread].index # NoTrack) =>
          LET w == Profiler_Tick(World, FrameThread, "crash")
              f == gProfiler.m_FrameIndex
              buf == GetFrameData(w.gProfiler.m_Tracks[tls[FrameThread].index + 1], f)
          IN  /\ w.gProfiler.m_FrameIndex = f + 1
              /\ f >= 1 => (Len(buf) >= 1 /\ buf[1].pName = "CPU Frame" /\ buf[1].TicksEnd # 0)
    /\ (Running /\ gGPUProfiler.m_IsInitialized /\ gGPUProfiler.m_IsPaused
        /\ ~gGPUProfiler.m_PauseQueued) =>
          LET w == GPUProfiler_Tick(World, "crash")
          IN  w.gGPUProfiler.m_FrameIndex = gGPUProfiler.m_FrameIndex + 1

\* C35: a paused recorder records nothing and keeps its frame, and the first Tick after
\* SetPaused(false) resumes it one frame further.
C35_PausedRecorderFrozen == PausedHandlersChangeNothing /\ ResumeAdvancesOneFrame
(***************************************************************************)
(* Properties of the order in which presents are processed                 *)
(***************************************************************************)
\* C36: across the Present calls on one swap chain every present ID produces at most
\* one event and the IDs are processed in increasing order: m_LastProcessedPresentID
\* never decreases, a step appends at most as many events to the Present track as it
\* went past IDs, and an ID is gone past only when it is below m_LastQueriedPresentID,
\* so that m_LastProcessedPresentID never exceeds m_LastQueriedPresentID - 1 (uint32).
C36_PresentsProcessedOnce ==
    [][/\ gProfiler'.m_LastProcessedPresentID >= gProfiler.m_LastProcessedPresentID
       /\ NumPresentEvents(gProfiler', 0) - NumPresentEvents(gProfiler, 0)
              <= gProfiler'.m_LastProcessedPresentID - gProfiler.m_LastProcessedPresentID
       /\ gProfiler'.m_LastProcessedPresentID > gProfiler.m_LastProcessedPresentID
              => gProfiler'.m_LastProcessedPresentID < gProfiler'.m_LastQueriedPresentID
       /\ gProfiler'.m_LastProcessedPresentID
              <= (gProfiler'.m_LastQueriedPresentID - 1) % UInt32Modulus
      ]_vars

\* C36 witness: the process loop has gone past two presents and the Present track holds
\* an event of each, while a later present was reported displayed
C36_Witness ==
    /\ Running
    /\ gProfiler.m_LastProcessedPresentID >= 2
    /\ gProfiler.m_LastProcessedPresentID < gProfiler.m_LastQueriedPresentID
    /\ NumPresentEvents(gProfiler, 0) >= 2
\* C37: no event emitted by Profiler::Present carries a sentinel as a timestamp: every
\* Present span appended by a step has TicksBegin < TicksEnd and neither is the
\* dropped-frame or missed-frame sentinel, and every Discarded marker starts at a
\* display time that is no sentinel.
C37_NoSentinelTimestamps ==
    [][\A b \in 0..(gProfiler'.m_HistorySize - 1) :
          \A k \in (Len(PresentBuffer(gProfiler, b)) + 1)..Len(PresentBuffer(gProfiler', b)) :
              LET e == PresentBuffer(gProfiler', b)[k]
              IN  /\ e.pName = "Present" =>
                         /\ e.TicksBegin < e.TicksEnd
                         /\ e.TicksBegin \notin {sQPCDroppedFrame, sQPCMissedFrame}
                         /\ e.TicksEnd \notin {sQPCDroppedFrame, sQPCMissedFrame}
                  /\ e.pName = "Discarded" =>
                         e.TicksBegin \notin {sQPCDroppedFrame, sQPCMissedFrame}
      ]_vars
(***************************************************************************)
(* Properties of the timestamp-sorting GPU recorder                        *)
(***************************************************************************)
\* no two regions of one queue cover the same interval
DistinctIntervals(regions) ==
    \A i, j \in 1..Len(regions) :
        (i # j /\ regions[i].QueueIndex = regions[j].QueueIndex)
        => (regions[i].BeginTicks # regions[j].BeginTicks \/ regions[i].EndTicks # regions[j].EndTicks)

\* C38: for a resolved frame whose regions are properly nested per queue (and, so that
\* enclosure orders them, cover different intervals), no check of the depth walk fails
\* and the Depth of every region is the number of other regions of its queue whose
\* [BeginTicks, EndTicks] encloses it, whatever the timestamps are, regions with the
\* same BeginTicks included.
C38_DepthIsEnclosingCount ==
    (sampleHistory.NumRegions > 0 /\ DistinctIntervals(sampleHistory.Regions)) =>
        /\ fault = NoFault
        /\ \A i \in 1..sampleHistory.NumRegions :
              sampleHistory.Regions[i].Depth =
                  Cardinality({j \in 1..sampleHistory.NumRegions :
                                  /\ j # i
                                  /\ sampleHistory.Regions[j].QueueIndex = sampleHistory.Regions[i].QueueIndex
                                  /\ Encloses(sampleHistory.Regions[j], sampleHistory.Regions[i])})

(***************************************************************************)
(* Properties of the shutdown                                              *)
(***************************************************************************)
\* the number of times page was handed to Page::Release
TimesReleased(a, page) == Cardinality({k \in 1..Len(a.Released) : a.Released[k] = page})

\* C39: Profiler::Shutdown returns in every state of the allocator (no undefined
\* behaviour stops it), and afterwards the queue of allocated pages and the list of free
\* pages are empty and every page the allocator created was released exactly once.
C39_ReleaseEmptiesAllocator ==
    [][(~shutdown /\ shutdown') =>
          /\ fault' = NoFault
          /\ gProfiler'.m_Allocator.AllocatedPages = <<>>
          /\ gProfiler'.m_Allocator.FreePages = <<>>
          /\ Len(gProfiler'.m_Allocator.Released) = Len(gProfiler'.m_Allocator.PageID)
          /\ \A page \in 1..Len(gProfiler'.m_Allocator.PageID) :
                TimesReleased(gProfiler'.m_Allocator, page) = 1]_vars
(***************************************************************************)
(* Properties of the event index of a marker                               *)
(***************************************************************************)
\* C40: an event index that GPUProfiler::BeginEvent assigns (one below Events.size(),
\* the query capacity of the initialised heaps divided by 2) is stored in the 16-bit
\* EventIndex as a value that is neither EndEventFlag nor InvalidEventFlag, and
\* ExecuteCommandLists takes the marker as a Begin marker.
C40_EventIndexNotSentinel ==
    marker.assigned =>
        /\ marker.query.EventIndex \notin {EndEventFlag, InvalidEventFlag}
        /\ marker.read \in {"none", "begin"}
====
